---- MODULE Spec2Model ----
(***************************************************************************)
(* Project cost analyzer: the Task/Project model (src/src/project.py) and  *)
(* the cost and timeline calculator (src/src/calculator.py).               *)
(*                                                                         *)
(* Python strings are sequences of one-character strings.  Durations and   *)
(* costs are integers; every timeline is kept in tenths of a day, so that  *)
(* the risk multipliers 1.1, 1.3 and 1.6 are the integers 11, 13 and 16    *)
(* and the scheduler's 0.1 clock increment is 1.                           *)
(***************************************************************************)
EXTENDS Integers, Sequences, FiniteSets, TLC

VARIABLES tasks, team_size, risk_level, pc, call, ret, cp, sim,
          simulator, mc, rng, result, arg, session, page

vars == <<tasks, team_size, risk_level, pc, call, ret, cp, sim,
          simulator, mc, rng, result, arg, session, page>>

\* the RiskSimulator, the locals of its trial loop, the random generator,
\* the SimulationResult the caller holds and the argument of the last call
simvars == <<simulator, mc, rng, result, arg>>

(***************************************************************************)
(* Bounds of the model.                                                    *)
(***************************************************************************)
MaxTasks == 3
MaxDays == 2
MaxEdges == 2
NegDays == 1
MaxCost == 2
MaxExtraIterations == 1
StreamPeriod == 2
MaxSeries == 3
MaxValue == 2

(***************************************************************************)
(* Generic helpers.                                                        *)
(***************************************************************************)
None == <<"None">>

Max2(a, b) == IF a >= b THEN a ELSE b

RECURSIVE SumSeq(_)
SumSeq(s) == IF s = <<>> THEN 0 ELSE s[1] + SumSeq(Tail(s))

InSeq(x, s) == \E i \in 1..Len(s) : s[i] = x

\* exact fractions <<numerator, denominator>> with a positive denominator,
\* for the results of float divisions
Frac(n, d) == <<n, d>>

FracEq(a, b) == a[1] * b[2] = b[1] * a[2]

FracLess(a, b) == a[1] * b[2] < b[1] * a[2]

FracAdd(a, b) == <<a[1] * b[2] + b[1] * a[2], a[2] * b[2]>>

FracSub(a, b) == <<a[1] * b[2] - b[1] * a[2], a[2] * b[2]>>

FracMul(a, b) == <<a[1] * b[1], a[2] * b[2]>>

\* the sequences of length at most n over S without repeated elements
ListsUpTo(S, n) == {s \in UNION {[1..k -> S] : k \in 0..n} :
                      \A i, j \in 1..Len(s) : i # j => s[i] # s[j]}

(***************************************************************************)
(* str.lower(), str.replace(" ", "_") and slicing [:20].                   *)
(***************************************************************************)
UpperChars == <<"A", "B", "C", "D", "E", "F", "G", "H", "I", "J", "K", "L", "M",
                "N", "O", "P", "Q", "R", "S", "T", "U", "V", "W", "X", "Y", "Z">>

LowerChars == <<"a", "b", "c", "d", "e", "f", "g", "h", "i", "j", "k", "l", "m",
                "n", "o", "p", "q", "r", "s", "t", "u", "v", "w", "x", "y", "z">>

LowerChar(c) == IF \E i \in 1..Len(UpperChars) : UpperChars[i] = c
                THEN LowerChars[CHOOSE i \in 1..Len(UpperChars) : UpperChars[i] = c]
                ELSE c

StrLower(s) == [i \in 1..Len(s) |-> LowerChar(s[i])]

StrReplaceSpace(s) == [i \in 1..Len(s) |-> IF s[i] = " " THEN "_" ELSE s[i]]

TaskIdLen == 20

StrPrefix(s, n) == IF Len(s) <= n THEN s ELSE SubSeq(s, 1, n)

(***************************************************************************)
(* Task.__post_init__: the id is derived from the name when none is given. *)
(* Nothing else is checked.                                                *)
(***************************************************************************)
TaskPostInit(t) ==
    IF t.task_id = None
    THEN [t EXCEPT !.task_id = StrPrefix(StrReplaceSpace(StrLower(t.name)), TaskIdLen)]
    ELSE t

(***************************************************************************)
(* Project.__post_init__: "ok" or the ValueError raised; the risk level is *)
(* stored in lower case.                                                   *)
(***************************************************************************)
ValidRiskLevels == {<<"l", "o", "w">>, <<"m", "e", "d", "i", "u", "m">>, <<"h", "i", "g", "h">>}

\* a constructor that lets a team of size zero through
ProjectPostInitZeroTeam(ts, team, risk) ==
    IF team < 0 THEN "Team size must be at least 1"
    ELSE IF ts = <<>> THEN "Project must have at least one task"
    ELSE IF StrLower(risk) \notin ValidRiskLevels THEN "Risk level must be one of"
    ELSE "ok"

ProjectPostInit(ts, team, risk) ==
    IF team <= 0 THEN "Team size must be at least 1"
    ELSE IF ts = <<>> THEN "Project must have at least one task"
    ELSE IF StrLower(risk) \notin ValidRiskLevels THEN "Risk level must be one of"
    ELSE "ok"

(***************************************************************************)
(* Project: derived attributes and lookups.                                *)
(***************************************************************************)
Scale == 10

total_estimated_days(ts) == SumSeq([i \in 1..Len(ts) |-> ts[i].estimated_days])

task_count(ts) == Len(ts)

\* the position of the first task with that id, 0 for None
get_task_by_id(ts, id) ==
    IF \E i \in 1..Len(ts) : ts[i].task_id = id
    THEN CHOOSE i \in 1..Len(ts) :
             ts[i].task_id = id /\ \A j \in 1..(i - 1) : ts[j].task_id # id
    ELSE 0

TaskIds(ts) == {ts[i].task_id : i \in 1..Len(ts)}

\* the value a dict comprehension {task.task_id: f(task) for task in tasks}
\* holds for a key: the one of the last task with that id
LastWithId(ts, id) ==
    CHOOSE i \in 1..Len(ts) :
        ts[i].task_id = id /\ \A j \in (i + 1)..Len(ts) : ts[j].task_id # id

\* the keys of such a dict in iteration order: first insertion
RECURSIVE KeyOrder(_, _)
KeyOrder(ts, i) ==
    IF i > Len(ts) THEN <<>>
    ELSE IF \E j \in 1..(i - 1) : ts[j].task_id = ts[i].task_id
         THEN KeyOrder(ts, i + 1)
         ELSE <<ts[i].task_id>> \o KeyOrder(ts, i + 1)

\* graph.get(node, [])
GraphGet(ts, node) ==
    IF node \in TaskIds(ts) THEN ts[LastWithId(ts, node)].dependencies ELSE <<>>

(***************************************************************************)
(* Project._has_circular_dependency: depth-first search with a visited set *)
(* and a recursion-stack set.                                              *)
(***************************************************************************)
RECURSIVE has_cycle(_, _, _, _)
RECURSIVE has_cycle_neighbors(_, _, _, _, _, _)
has_cycle(ts, node, visited, rec_stack) ==
    has_cycle_neighbors(ts, node, GraphGet(ts, node), 1,
                        visited \cup {node}, rec_stack \cup {node})

has_cycle_neighbors(ts, node, nbrs, i, visited, rec_stack) ==
    IF i > Len(nbrs)
    THEN [found |-> FALSE, visited |-> visited, rec_stack |-> rec_stack \ {node}]
    ELSE IF nbrs[i] \notin visited
         THEN LET sub == has_cycle(ts, nbrs[i], visited, rec_stack)
              IN  IF sub.found THEN sub
                  ELSE has_cycle_neighbors(ts, node, nbrs, i + 1,
                                           sub.visited, sub.rec_stack)
         ELSE IF nbrs[i] \in rec_stack
              THEN [found |-> TRUE, visited |-> visited, rec_stack |-> rec_stack]
              ELSE has_cycle_neighbors(ts, node, nbrs, i + 1, visited, rec_stack)

RECURSIVE has_circular_from(_, _, _, _)
has_circular_from(ts, i, visited, rec_stack) ==
    IF i > Len(ts) THEN FALSE
    ELSE IF ts[i].task_id \in visited
         THEN has_circular_from(ts, i + 1, visited, rec_stack)
         ELSE LET r == has_cycle(ts, ts[i].task_id, visited, rec_stack)
              IN  r.found \/ has_circular_from(ts, i + 1, r.visited, r.rec_stack)

has_circular_dependency(ts) == has_circular_from(ts, 1, {}, {})

(***************************************************************************)
(* Project.validate_dependencies: one error per (task, dependency id) that *)
(* matches no task, in task order, then the circular-dependency error.     *)
(***************************************************************************)
MissingError(t, dep_id) == [kind |-> "non-existent", task |-> t.name, dep |-> dep_id]

CircularError == [kind |-> "circular", task |-> <<>>, dep |-> <<>>]

RECURSIVE MissingOfTask(_, _, _)
MissingOfTask(ts, t, k) ==
    IF k > Len(t.dependencies) THEN <<>>
    ELSE (IF t.dependencies[k] \notin TaskIds(ts)
          THEN <<MissingError(t, t.dependencies[k])>> ELSE <<>>)
         \o MissingOfTask(ts, t, k + 1)

RECURSIVE MissingErrors(_, _)
MissingErrors(ts, i) ==
    IF i > Len(ts) THEN <<>>
    ELSE MissingOfTask(ts, ts[i], 1) \o MissingErrors(ts, i + 1)

validate_dependencies(ts) ==
    MissingErrors(ts, 1)
    \o (IF has_circular_dependency(ts) THEN <<CircularError>> ELSE <<>>)

(***************************************************************************)
(* Project.get_critical_path, forward pass: Kahn's algorithm over the      *)
(* in-degree dict, updating earliest_start of every task that lists the    *)
(* retired id as a dependency.                                             *)
(***************************************************************************)
InitInDegree(ts) ==
    [id \in TaskIds(ts) |-> Len(ts[LastWithId(ts, id)].dependencies)]

InitEarliestStart(ts) == [id \in TaskIds(ts) |-> 0]

RECURSIVE InitQueue(_, _)
InitQueue(ts, i) ==
    IF i > Len(ts) THEN <<>>
    ELSE (IF InitInDegree(ts)[ts[i].task_id] = 0 THEN <<ts[i].task_id>> ELSE <<>>)
         \o InitQueue(ts, i + 1)

\* for task in self.tasks: if current_id in task.dependencies: ...
RECURSIVE UpdateDependents(_, _, _, _, _, _)
UpdateDependents(ts, i, current_id, es, in_degree, queue) ==
    IF i > Len(ts) THEN [es |-> es, in_degree |-> in_degree, queue |-> queue]
    ELSE IF InSeq(current_id, ts[i].dependencies)
         THEN LET tid == ts[i].task_id
                  cur == ts[get_task_by_id(ts, current_id)]
                  es1 == [es EXCEPT ![tid] =
                              Max2(es[tid], es[current_id] + cur.estimated_days)]
                  deg1 == [in_degree EXCEPT ![tid] = in_degree[tid] - 1]
                  q1 == IF deg1[tid] = 0 THEN Append(queue, tid) ELSE queue
              IN  UpdateDependents(ts, i + 1, current_id, es1, deg1, q1)
         ELSE UpdateDependents(ts, i + 1, current_id, es, in_degree, queue)

RECURSIVE KahnLoop(_, _, _, _)
KahnLoop(ts, es, in_degree, queue) ==
    IF queue = <<>> THEN es
    ELSE LET st == UpdateDependents(ts, 1, Head(queue), es, in_degree, Tail(queue))
         IN  KahnLoop(ts, st.es, st.in_degree, st.queue)

\* the ids popped by "current_id = queue.pop(0)", in order
RECURSIVE KahnRetired(_, _, _, _)
KahnRetired(ts, es, in_degree, queue) ==
    IF queue = <<>> THEN <<>>
    ELSE LET st == UpdateDependents(ts, 1, Head(queue), es, in_degree, Tail(queue))
         IN  <<Head(queue)>> \o KahnRetired(ts, st.es, st.in_degree, st.queue)

EarliestStart(ts) ==
    KahnLoop(ts, InitEarliestStart(ts), InitInDegree(ts), InitQueue(ts, 1))

\* earliest_start[tid] + self.get_task_by_id(tid).estimated_days
EarliestFinish(ts, es, tid) == es[tid] + ts[get_task_by_id(ts, tid)].estimated_days

\* max(earliest_start.keys(), key=...): the first key with the greatest value
EndTaskId(ts, es) ==
    LET keys == KeyOrder(ts, 1)
        k == CHOOSE k \in 1..Len(keys) :
                 /\ \A j \in 1..Len(keys) :
                        EarliestFinish(ts, es, keys[j]) <= EarliestFinish(ts, es, keys[k])
                 /\ \A j \in 1..(k - 1) :
                        EarliestFinish(ts, es, keys[j]) < EarliestFinish(ts, es, keys[k])
    IN  keys[k]

(***************************************************************************)
(* Project.get_critical_path, backtracking loop.  The loop's locals are    *)
(* [earliest_start, critical_path, current_id]; critical_path holds task   *)
(* positions.  One iteration of "while current_id:".                       *)
(***************************************************************************)
Truthy(id) == id # None /\ id # <<>>

\* the for loop over current_task.dependencies: the first dependency whose
\* earliest finish equals the task's earliest start; "KeyError" when a
\* dependency that is no key of earliest_start is read first
\* a search that takes the first dependency, whatever its earliest finish
FindPredecessorFirst(ts, es, t, k) ==
    IF t.dependencies[1] \notin DOMAIN es THEN [raised |-> TRUE, id |-> None]
    ELSE [raised |-> FALSE, id |-> t.dependencies[1]]

RECURSIVE FindPredecessor(_, _, _, _)
FindPredecessor(ts, es, t, k) ==
    IF k > Len(t.dependencies) THEN [raised |-> FALSE, id |-> None]
    ELSE LET dep_id == t.dependencies[k]
         IN  IF dep_id \notin DOMAIN es THEN [raised |-> TRUE, id |-> None]
             ELSE IF EarliestFinish(ts, es, dep_id) = es[t.task_id]
                  THEN [raised |-> FALSE, id |-> dep_id]
                  ELSE FindPredecessor(ts, es, t, k + 1)

\* status: "loop" (another iteration follows), "exit" or "KeyError"
BacktrackBody(ts, c) ==
    LET i == get_task_by_id(ts, c.current_id)
        path == <<i>> \o c.critical_path
    IN  IF ts[i].dependencies = <<>>
        THEN [status |-> "exit", cp |-> [c EXCEPT !.critical_path = path]]
        ELSE LET f == FindPredecessor(ts, c.earliest_start, ts[i], 1)
                 c1 == [c EXCEPT !.critical_path = path, !.current_id = f.id]
             IN  IF f.raised THEN [status |-> "KeyError", cp |-> c1]
                 ELSE IF Truthy(f.id) THEN [status |-> "loop", cp |-> c1]
                 ELSE [status |-> "exit", cp |-> c1]

PathDuration(ts, path) == SumSeq([k \in 1..Len(path) |-> ts[path[k]].estimated_days])

(***************************************************************************)
(* utils.get_risk_multiplier, in tenths.                                   *)
(***************************************************************************)
\* a table that knows the default multiplier only
RiskMultiplierDefaultOnly(risk) == 13

get_risk_multiplier(risk) ==
    LET r == StrLower(risk)
    IN  IF r = <<"l", "o", "w">> THEN 11
        ELSE IF r = <<"m", "e", "d", "i", "u", "m">> THEN 13
        ELSE IF r = <<"h", "i", "g", "h">> THEN 16
        ELSE 13

(***************************************************************************)
(* ProjectCalculator.  Results are days x Scale x multiplier-in-tenths.    *)
(***************************************************************************)
calculate_sequential_timeline(ts, risk) ==
    total_estimated_days(ts) * Scale * get_risk_multiplier(risk)

\* Task.base_cost and Project.total_base_cost
base_cost(t) == t.estimated_days * t.cost_per_day

total_base_cost(ts) == SumSeq([i \in 1..Len(ts) |-> base_cost(ts[i])])

\* the multiplier 1.1, 1.3 or 1.6 as a fraction
risk_multiplier(risk) == Frac(get_risk_multiplier(risk), 10)

calculate_base_cost(ts) == Frac(total_base_cost(ts), 1)

calculate_adjusted_cost(ts, risk) ==
    FracMul(Frac(total_base_cost(ts), 1), risk_multiplier(risk))

\* adjusted_cost / self.project.team_size
calculate_cost_per_resource(ts, team, risk) ==
    LET adjusted_cost == calculate_adjusted_cost(ts, risk)
    IN  Frac(adjusted_cost[1], adjusted_cost[2] * team)

calculate_cost_breakdown(ts, team, risk) ==
    LET base == calculate_base_cost(ts)
        adjusted_cost == calculate_adjusted_cost(ts, risk)
        risk_overhead == FracSub(adjusted_cost, base)
    IN  [base_cost |-> base,
         risk_overhead |-> risk_overhead,
         total_cost |-> adjusted_cost,
         cost_per_resource |-> calculate_cost_per_resource(ts, team, risk)]

\* a calculate_parallel_timeline that forgets the critical-path floor
ParallelResultNoFloor(timeline, critical_path_duration, risk) ==
    timeline * get_risk_multiplier(risk)

\* max(adjusted_timeline, min_timeline); timeline is in tenths of a day
ParallelResult(timeline, critical_path_duration, risk) ==
    Max2(timeline * get_risk_multiplier(risk),
         critical_path_duration * Scale * get_risk_multiplier(risk))

(***************************************************************************)
(* _simulate_resource_constrained_schedule.  Dicts are functions whose     *)
(* domain is the set of keys.                                              *)
(***************************************************************************)
EmptyDict == [x \in {} |-> 0]

DictSet(d, k, v) == [x \in (DOMAIN d) \cup {k} |-> IF x = k THEN v ELSE d[x]]

DictValues(d) == {d[x] : x \in DOMAIN d}

MaxOf(S) == CHOOSE m \in S : \A x \in S : x <= m

MinOf(S) == CHOOSE m \in S : \A x \in S : m <= x

\* earliest start from the dependencies already in task_finish_times
RECURSIVE DepsFinish(_, _, _, _)
DepsFinish(deps, k, finish, acc) ==
    IF k > Len(deps) THEN acc
    ELSE DepsFinish(deps, k + 1, finish,
                    IF deps[k] \in DOMAIN finish THEN Max2(acc, finish[deps[k]]) ELSE acc)

\* the first loop: start and finish times in insertion order of the tasks
RECURSIVE DependencyTimes(_, _, _, _)
DependencyTimes(ts, i, start, finish) ==
    IF i > Len(ts) THEN [start |-> start, finish |-> finish]
    ELSE LET earliest == DepsFinish(ts[i].dependencies, 1, finish, 0)
         IN  DependencyTimes(ts, i + 1,
                             DictSet(start, ts[i].task_id, earliest),
                             DictSet(finish, ts[i].task_id,
                                     earliest + ts[i].estimated_days * Scale))

task_start_times(ts) == DependencyTimes(ts, 1, EmptyDict, EmptyDict).start

task_finish_times(ts) == DependencyTimes(ts, 1, EmptyDict, EmptyDict).finish

\* team_size >= task_count: max(task_finish_times.values())
UnconstrainedTimeline(ts) == MaxOf(DictValues(task_finish_times(ts)))

\* sorted(tasks, key=lambda t: (task_start_times[t.task_id], -t.estimated_days)),
\* a stable sort, as positions
KeyLess(ts, i, j) ==
    LET st == task_start_times(ts)
    IN  \/ st[ts[i].task_id] < st[ts[j].task_id]
        \/ /\ st[ts[i].task_id] = st[ts[j].task_id]
           /\ ts[i].estimated_days > ts[j].estimated_days

RECURSIVE InsertSorted(_, _, _)
InsertSorted(ts, sorted, i) ==
    IF sorted = <<>> THEN <<i>>
    ELSE IF KeyLess(ts, i, Head(sorted)) THEN <<i>> \o sorted
         ELSE <<Head(sorted)>> \o InsertSorted(ts, Tail(sorted), i)

RECURSIVE SortedTasks(_, _)
SortedTasks(ts, n) ==
    IF n = 0 THEN <<>> ELSE InsertSorted(ts, SortedTasks(ts, n - 1), n)

InitSchedule(ts) ==
    [current_time |-> 0,
     remaining_tasks |-> SortedTasks(ts, Len(ts)),
     active_tasks |-> <<>>,
     scheduled_start |-> EmptyDict,
     scheduled_finish |-> EmptyDict]

LoopCondition(s) == s.remaining_tasks # <<>> \/ s.active_tasks # <<>>

\* all(dep_id in scheduled_finish and scheduled_finish[dep_id] <= current_time ...)
deps_complete(t, s) ==
    \A k \in 1..Len(t.dependencies) :
        /\ t.dependencies[k] \in DOMAIN s.scheduled_finish
        /\ s.scheduled_finish[t.dependencies[k]] <= s.current_time

\* [t for t in active_tasks if scheduled_finish[t.task_id] > current_time]
RECURSIVE StillActive(_, _, _)
StillActive(ts, s, act) ==
    IF act = <<>> THEN <<>>
    ELSE (IF s.scheduled_finish[ts[Head(act)].task_id] > s.current_time
          THEN <<Head(act)>> ELSE <<>>)
         \o StillActive(ts, s, Tail(act))

\* the can_start loop: the capacity test reads active_tasks as it is before
\* any task of this round is started
CanStartTest(ts, team, s, i) ==
    deps_complete(ts[i], s) /\ Len(s.active_tasks) < team

RECURSIVE CanStart(_, _, _, _)
CanStart(ts, team, s, rem) ==
    IF rem = <<>> THEN <<>>
    ELSE (IF CanStartTest(ts, team, s, Head(rem)) THEN <<Head(rem)>> ELSE <<>>)
         \o CanStart(ts, team, s, Tail(rem))

\* list.remove: the first occurrence
RECURSIVE RemoveFirst(_, _)
RemoveFirst(seq, x) ==
    IF seq = <<>> THEN <<>>
    ELSE IF Head(seq) = x THEN Tail(seq)
         ELSE <<Head(seq)>> \o RemoveFirst(Tail(seq), x)

RECURSIVE StartTasks(_, _, _)
StartTasks(ts, s, can_start) ==
    IF can_start = <<>> THEN s
    ELSE LET i == Head(can_start)
             s1 == [s EXCEPT
                      !.scheduled_start = DictSet(@, ts[i].task_id, s.current_time),
                      !.scheduled_finish = DictSet(@, ts[i].task_id,
                                                   s.current_time + ts[i].estimated_days * Scale),
                      !.active_tasks = Append(@, i),
                      !.remaining_tasks = RemoveFirst(@, i)]
         IN  StartTasks(ts, s1, Tail(can_start))

\* scheduled_finish.get(dep_id, 0)
FinishOrZero(s, dep_id) ==
    IF dep_id \in DOMAIN s.scheduled_finish THEN s.scheduled_finish[dep_id] ELSE 0

ClockIncrement == 1

\* advance time to the next event
AdvanceClock(ts, s) ==
    IF s.active_tasks # <<>>
    THEN [s EXCEPT !.current_time =
              MinOf({s.scheduled_finish[ts[s.active_tasks[k]].task_id] :
                       k \in 1..Len(s.active_tasks)})]
    ELSE IF s.remaining_tasks # <<>>
         THEN LET next_task == ts[s.remaining_tasks[1]]
              IN  IF next_task.dependencies # <<>>
                  THEN [s EXCEPT !.current_time =
                            MaxOf({FinishOrZero(s, next_task.dependencies[k]) :
                                     k \in 1..Len(next_task.dependencies)})]
                  ELSE [s EXCEPT !.current_time = @ + ClockIncrement]
         ELSE s

\* the first half of an iteration: finished tasks leave active_tasks and
\* the tasks that can start are started
ScheduleAdmit(ts, team, s) ==
    LET s1 == [s EXCEPT !.active_tasks = StillActive(ts, s, s.active_tasks)]
    IN  StartTasks(ts, s1, CanStart(ts, team, s1, s1.remaining_tasks))

\* one iteration of "while remaining_tasks or active_tasks"
ScheduleBody(ts, team, s) == AdvanceClock(ts, ScheduleAdmit(ts, team, s))

\* max(scheduled_finish.values()) if scheduled_finish else 0.0
ScheduleResult(s) ==
    IF DOMAIN s.scheduled_finish = {} THEN 0 ELSE MaxOf(DictValues(s.scheduled_finish))

(***************************************************************************)
(* utils.calculate_percentile.  The record returned holds the value, the   *)
(* argument list as the call leaves it, and whether indexing raised        *)
(* IndexError.  The index int(n * (percentile / 100)) is the quotient      *)
(* n * percentile / 100 truncated towards zero; the binary floating-point  *)
(* product agrees with it for every integer percentile in -300..300 and    *)
(* every n below 25.                                                       *)
(***************************************************************************)
TruncDiv(a, b) == IF a >= 0 THEN a \div b ELSE 0 - ((0 - a) \div b)

Min2(a, b) == IF a <= b THEN a ELSE b

\* sorted(values): ascending, as a new list
RECURSIVE InsertAscending(_, _)
InsertAscending(sorted, x) ==
    IF sorted = <<>> THEN <<x>>
    ELSE IF x < Head(sorted) THEN <<x>> \o sorted
         ELSE <<Head(sorted)>> \o InsertAscending(Tail(sorted), x)

\* a sort that leaves the list as it is
SortedAsGiven(values) == values

RECURSIVE Sorted(_)
Sorted(values) ==
    IF values = <<>> THEN <<>>
    ELSE InsertAscending(Sorted(SubSeq(values, 1, Len(values) - 1)), values[Len(values)])

PercentileIndex(n, percentile) == Min2(TruncDiv(n * percentile, 100), n - 1)

\* a percentile that sorts its argument in place
PercentileSortingInPlace(values, percentile) ==
    IF values = <<>> THEN [raised |-> FALSE, value |-> 0, values |-> values]
    ELSE LET sorted_values == Sorted(values)
             n == Len(sorted_values)
             index == PercentileIndex(n, percentile)
         IN  IF index >= 0
             THEN [raised |-> FALSE, value |-> sorted_values[index + 1],
                   values |-> sorted_values]
             ELSE IF index >= 0 - n
                  THEN [raised |-> FALSE, value |-> sorted_values[n + index + 1],
                        values |-> sorted_values]
                  ELSE [raised |-> TRUE, value |-> 0, values |-> sorted_values]

\* sorted_values[index]: a negative index counts from the end of the list,
\* and an index below -n raises IndexError
calculate_percentile(values, percentile) ==
    IF values = <<>> THEN [raised |-> FALSE, value |-> 0, values |-> values]
    ELSE LET sorted_values == Sorted(values)
             n == Len(sorted_values)
             index == PercentileIndex(n, percentile)
         IN  IF index >= 0
             THEN [raised |-> FALSE, value |-> sorted_values[index + 1], values |-> values]
             ELSE IF index >= 0 - n
                  THEN [raised |-> FALSE, value |-> sorted_values[n + index + 1],
                        values |-> values]
                  ELSE [raised |-> TRUE, value |-> 0, values |-> values]

(***************************************************************************)
(* SimulationResult: [costs, timelines, iterations].  A mean is a          *)
(* fraction; a standard deviation variance ** 0.5 is held as Root of the   *)
(* variance, a fraction.                                                   *)
(***************************************************************************)
SimulationResult(costs, timelines, iterations) ==
    [costs |-> costs, timelines |-> timelines, iterations |-> iterations]

Root(q) == [root_of |-> q]

\* a mean that divides whatever the length
MeanDividing(xs) == Frac(SumSeq(xs), Len(xs))

\* sum(xs) / len(xs) if xs else 0.0
Mean(xs) == IF xs = <<>> THEN Frac(0, 1) ELSE Frac(SumSeq(xs), Len(xs))

\* sum((x - mean) ** 2 for x in xs) / len(xs), with every x - mean over the
\* common denominator len(xs)
Variance(xs) ==
    LET n == Len(xs)
        total == SumSeq(xs)
    IN  Frac(SumSeq([i \in 1..n |-> (n * xs[i] - total) * (n * xs[i] - total)]), n * n * n)

Std(xs) == IF xs = <<>> THEN Root(Frac(0, 1)) ELSE Root(Variance(xs))

cost_mean(r) == Mean(r.costs)

timeline_mean(r) == Mean(r.timelines)

cost_std(r) == Std(r.costs)

timeline_std(r) == Std(r.timelines)

get_cost_percentile(r, percentile) == calculate_percentile(r.costs, percentile)

get_timeline_percentile(r, percentile) == calculate_percentile(r.timelines, percentile)

\* get_scenarios: the 10th, 50th, 75th and 90th percentile and the mean of
\* each series
get_scenarios(r) ==
    [best_case |-> [cost |-> get_cost_percentile(r, 10).value,
                    timeline |-> get_timeline_percentile(r, 10).value,
                    probability |-> "10% chance of being this good or better"],
     expected |-> [cost |-> cost_mean(r),
                   timeline |-> timeline_mean(r),
                   probability |-> "Most likely outcome (mean)"],
     worst_case |-> [cost |-> get_cost_percentile(r, 90).value,
                     timeline |-> get_timeline_percentile(r, 90).value,
                     probability |-> "10% chance of being this bad or worse"],
     p50 |-> [cost |-> get_cost_percentile(r, 50).value,
              timeline |-> get_timeline_percentile(r, 50).value,
              probability |-> "50% confidence level (median)"],
     p75 |-> [cost |-> get_cost_percentile(r, 75).value,
              timeline |-> get_timeline_percentile(r, 75).value,
              probability |-> "25% chance of exceeding this"]]

(***************************************************************************)
(* RiskSimulator.analyze_risk_drivers, given the critical path that its    *)
(* call of get_critical_path returned.                                     *)
(***************************************************************************)
\* (std / mean) if mean > 0 else 0: the root of variance / mean ** 2
CoefficientOfVariation(std, mean) ==
    IF mean[1] > 0
    THEN Root(Frac(std.root_of[1] * mean[2] * mean[2], std.root_of[2] * mean[1] * mean[1]))
    ELSE Root(Frac(0, 1))

\* cv > 0.2 for a cv that is not negative: cv ** 2 > 1/25
ExceedsFifth(cv) == 25 * cv.root_of[1] > cv.root_of[2]

analyze_risk_drivers(ts, team, risk, r, critical_path) ==
    LET cost_cv == CoefficientOfVariation(cost_std(r), cost_mean(r))
        timeline_cv == CoefficientOfVariation(timeline_std(r), timeline_mean(r))
        drivers ==
            (IF risk = <<"h", "i", "g", "h">>
             THEN <<"High inherent project risk level">> ELSE <<>>)
            \o (IF 2 * team < task_count(ts)
                THEN <<"Limited team resources relative to task count">> ELSE <<>>)
            \o (IF ExceedsFifth(cost_cv) THEN <<"High cost variability">> ELSE <<>>)
            \o (IF ExceedsFifth(timeline_cv) THEN <<"High timeline uncertainty">> ELSE <<>>)
            \o (IF 10 * Len(critical_path) > 6 * task_count(ts)
                THEN <<"Long critical path with many dependencies">> ELSE <<>>)
    IN  [cost_variability |-> cost_cv,
         timeline_variability |-> timeline_cv,
         primary_drivers |-> IF drivers # <<>> THEN drivers
                             ELSE <<"Low risk project with stable estimates">>,
         risk_level |-> risk,
         confidence_80_percent |->
             [cost_range |-> <<get_cost_percentile(r, 10).value,
                               get_cost_percentile(r, 90).value>>,
              timeline_range |-> <<get_timeline_percentile(r, 10).value,
                                   get_timeline_percentile(r, 90).value>>]]

(***************************************************************************)
(* RiskSimulator.  The random generator is a record [u, g, iu, ig]: the    *)
(* cyclic sequences of the values random.uniform and random.gauss draw     *)
(* and the positions of the next draws.  A uniform draw is 0 or 1, the     *)
(* ends of the interval; a Gaussian draw is in hundredths.                 *)
(*                                                                         *)
(* Multipliers are in thousandths (MultScale), the jitter of the           *)
(* contention factor in tenths (JitterScale), the risk factor in           *)
(* hundredths (RiskScale).  A trial's cost is in units of                  *)
(* 1 / (MultScale * RiskScale); its timeline in units of 1 / TimelineScale.*)
(***************************************************************************)
MinIterations == 100

MultScale == 1000

JitterScale == 10

RiskScale == 100

\* an __init__ that takes the requested count as it is
RiskSimulatorInitNoClamp(iterations) == [iterations |-> iterations]

\* RiskSimulator.__init__
RiskSimulatorInit(iterations) == [iterations |-> Max2(MinIterations, iterations)]

\* _get_variation_range, in hundredths
get_variation_range(risk) ==
    IF risk = <<"l", "o", "w">> THEN 15
    ELSE IF risk = <<"m", "e", "d", "i", "u", "m">> THEN 30
    ELSE IF risk = <<"h", "i", "g", "h">> THEN 50
    ELSE 30

\* random.uniform(a, b) = a + (b - a) * random()
uniform(a, b, g) == a + (b - a) * g.u[g.iu]

AfterUniform(g) == [g EXCEPT !.iu = (g.iu % Len(g.u)) + 1]

gauss(g) == g.g[g.ig]

AfterGauss(g) == [g EXCEPT !.ig = (g.ig % Len(g.g)) + 1]

\* _get_risk_factor, in hundredths: max(1.0, base_multiplier + variation)
get_risk_factor(risk, variation) ==
    LET base_multiplier == IF risk = <<"l", "o", "w">> THEN 105
                           ELSE IF risk = <<"m", "e", "d", "i", "u", "m">> THEN 115
                           ELSE IF risk = <<"h", "i", "g", "h">> THEN 130
                           ELSE 115
    IN  Max2(RiskScale, base_multiplier + variation)

\* the loop over the tasks of _simulate_single_scenario: the total cost and
\* the perturbed duration per task id, both in thousandths
RECURSIVE PerturbTasks(_, _, _, _, _, _)
PerturbTasks(ts, risk, i, total_cost, task_durations, g) ==
    IF i > Len(ts)
    THEN [total_cost |-> total_cost, task_durations |-> task_durations, rng |-> g]
    ELSE LET variation_range == get_variation_range(risk)
             cost_multiplier == uniform(MultScale - 5 * variation_range,
                                        MultScale + 10 * variation_range, g)
             g1 == AfterUniform(g)
             time_multiplier == uniform(MultScale - 3 * variation_range,
                                        MultScale + 12 * variation_range, g1)
             g2 == AfterUniform(g1)
         IN  PerturbTasks(ts, risk, i + 1,
                          total_cost + base_cost(ts[i]) * cost_multiplier,
                          DictSet(task_durations, ts[i].task_id,
                                  ts[i].estimated_days * time_multiplier),
                          g2)

\* the first loop of _calculate_scenario_timeline: finish times in the
\* insertion order of the tasks
RECURSIVE ScenarioFinishTimes(_, _, _, _)
ScenarioFinishTimes(ts, i, task_durations, finish) ==
    IF i > Len(ts) THEN finish
    ELSE LET earliest_start == DepsFinish(ts[i].dependencies, 1, finish, 0)
         IN  ScenarioFinishTimes(ts, i + 1, task_durations,
                                 DictSet(finish, ts[i].task_id,
                                         earliest_start + task_durations[ts[i].task_id]))

\* the unit of a timeline: the contention factor 1.0 + 0.1 * (count / team - 1)
\* is (9 * team + count) / (10 * team)
TimelineScale(ts, team) ==
    IF team < task_count(ts)
    THEN MultScale * (10 * team) * JitterScale * RiskScale
    ELSE MultScale * RiskScale

\* _calculate_scenario_timeline, before the risk factor
calculate_scenario_timeline(ts, team, task_durations, g) ==
    LET finish == ScenarioFinishTimes(ts, 1, task_durations, EmptyDict)
        longest == IF DOMAIN finish = {} THEN 0 ELSE MaxOf(DictValues(finish))
    IN  IF team < task_count(ts)
        THEN [timeline |-> longest * (9 * team + task_count(ts))
                                   * uniform(8, 12, g),
              rng |-> AfterUniform(g)]
        ELSE [timeline |-> longest, rng |-> g]

\* _simulate_single_scenario
simulate_single_scenario(ts, team, risk, g) ==
    LET p == PerturbTasks(ts, risk, 1, 0, EmptyDict, g)
        t == calculate_scenario_timeline(ts, team, p.task_durations, p.rng)
        risk_factor == get_risk_factor(risk, gauss(t.rng))
    IN  [total_cost |-> p.total_cost * risk_factor,
         total_timeline |-> t.timeline * risk_factor,
         rng |-> AfterGauss(t.rng)]

(***************************************************************************)
(* The inputs: the arguments of Task(...) and Project(...).                *)
(***************************************************************************)
Letters == <<"a", "b", "c", "d", "e", "f">>

Digits == <<"1", "2", "3", "4", "5", "6">>

IdOf(k) == <<Letters[k]>>

MissingId == <<"z">>

NameOf(k) == <<"T", Digits[k]>>

Low == <<"l", "o", "w">>

\* the ways n tasks share ids, up to renaming: task 1 has the first id, and
\* each later task has an id already used or the next unused one
IdPatterns(n) ==
    {p \in [1..n -> 1..n] :
        /\ p[1] = 1
        /\ \A k \in 2..n : \E j \in 1..(k - 1) : p[k] <= p[j] + 1}

DepPool(n) == {IdOf(k) : k \in 1..n} \cup {MissingId}

\* dependency lists for n tasks with at most e dependencies in all
DepAssignments(n, e) ==
    {d \in [1..n -> ListsUpTo(DepPool(n), e)] :
        SumSeq([k \in 1..n |-> Len(d[k])]) <= e}

TaskArgs(k, id, days, cost, deps) ==
    [name |-> NameOf(k), estimated_days |-> days, cost_per_day |-> cost,
     dependencies |-> deps, task_id |-> id]

RiskInputs ==
    {Low, <<"m", "e", "d", "i", "u", "m">>, <<"h", "i", "g", "h">>,
     <<"L", "o", "w">>, <<"M", "E", "D", "I", "U", "M">>, <<"H", "i", "g", "h">>,
     <<"c", "r", "i", "t", "i", "c", "a", "l">>, <<" ", "l", "o", "w">>, <<>>}

\* tasks with explicit ids (possibly shared), positive durations and
\* dependencies that may name the task itself, a later task or no task
GraphInputs ==
    {<<[k \in 1..n |-> TaskArgs(k, IdOf(p[k]), days[k], 1, deps[k])], team, Low>> :
        <<n, p, days, deps, team>> \in
            UNION {{<<n, p, days, deps, team>> :
                      p \in IdPatterns(n), days \in [1..n -> 1..MaxDays],
                      deps \in DepAssignments(n, MaxEdges), team \in 1..MaxTasks} :
                   n \in 1..MaxTasks}}

\* tasks without dependencies, every risk tier, team sizes below and above
\* the task count
IndependentInputs ==
    {<<[k \in 1..n |-> TaskArgs(k, IdOf(k), days[k], 1, <<>>)], team, risk>> :
        <<n, days, team, risk>> \in
            UNION {{<<n, days, team, risk>> :
                      days \in [1..n -> 1..MaxDays], team \in 1..(MaxTasks + 1),
                      risk \in ValidRiskLevels} :
                   n \in 1..MaxTasks}}

\* durations and costs that are zero or negative
NumberInputs ==
    {<<<<TaskArgs(1, IdOf(1), days, cost, <<>>)>>, 1, Low>> :
        <<days, cost>> \in ((0 - NegDays)..MaxDays) \X ((0 - NegDays)..MaxDays)}
    \cup
    {<<[k \in 1..2 |-> TaskArgs(k, IdOf(k), days[k], 1, deps[k])], team, Low>> :
        <<days, deps, team>> \in
            [1..2 -> (0 - NegDays)..MaxDays] \X DepAssignments(2, 1) \X (1..2)}

\* two independent tasks with costs per day that differ, every risk tier
CostInputs ==
    {<<[k \in 1..2 |-> TaskArgs(k, IdOf(k), days[k], cost[k], <<>>)], team, risk>> :
        <<days, cost, team, risk>> \in
            [1..2 -> 1..MaxDays] \X [1..2 -> 1..MaxCost] \X (1..2) \X ValidRiskLevels}

\* arguments Project.__post_init__ may reject, and ids derived from names
ConstructorInputs ==
    {<<ts, team, risk>> :
        <<ts, team, risk>> \in
            {<<>>,
             <<TaskArgs(1, IdOf(1), 1, 1, <<>>)>>,
             <<[name |-> <<"M", "y", " ", "T", "a", "s", "k">>, estimated_days |-> 1,
                cost_per_day |-> 1, dependencies |-> <<>>, task_id |-> None]>>}
            \X ((0 - NegDays)..MaxTasks) \X RiskInputs}

\* task names whose derived ids coincide: they differ in case, in a space
\* against an underscore, or after the 20th character
DerivedNames ==
    {<<"M", "y", " ", "T", "a", "s", "k">>,
     <<"m", "y", " ", "t", "a", "s", "k">>,
     <<"m", "y", "_", "t", "a", "s", "k">>,
     <<"M", "Y", " ", "T", "A", "S", "K">>,
     <<"D", "e", "s", "i", "g", "n", " ", "R", "e", "v", "i", "e", "w", " ",
       "M", "e", "e", "t", "i", "n", "g", " ", "1">>,
     <<"D", "e", "s", "i", "g", "n", " ", "R", "e", "v", "i", "e", "w", " ",
       "M", "e", "e", "t", "i", "n", "g", " ", "2">>,
     <<"D", "e", "p", "l", "o", "y">>}

\* two tasks without task_id argument
DerivedIdInputs ==
    {<<[k \in 1..2 |-> [name |-> names[k], estimated_days |-> days[k], cost_per_day |-> 1,
                        dependencies |-> <<>>, task_id |-> None]], team, Low>> :
        <<names, days, team>> \in
            {nm \in [1..2 -> DerivedNames] : nm[1] # nm[2]} \X [1..2 -> 1..MaxDays] \X (1..2)}

\* requested iteration counts: negative, zero, small, and around the minimum
IterationInputs ==
    ((0 - NegDays)..1) \cup ((MinIterations - 1)..(MinIterations + MaxExtraIterations))

\* the generators a simulation run may start from
UniformStreams == [1..StreamPeriod -> {0, 1}]

GaussStreams == {<<0 - 30, 20>>, <<0 - 10, 0>>}

Generators ==
    {[u |-> us, g |-> gs, iu |-> 1, ig |-> 1] : us \in UniformStreams, gs \in GaussStreams}

\* the Projects a RiskSimulator is built for: one or two tasks, at most one
\* dependency (on an earlier or a later task, on the task itself or on no
\* task), the first task the longer one
SimulationInputs ==
    {<<[k \in 1..n |-> TaskArgs(k, IdOf(k), MaxDays + 1 - k, k, deps[k])], team, risk>> :
        <<n, deps, team, risk>> \in
            UNION {{<<n, deps, team, risk>> :
                      deps \in DepAssignments(n, 1), team \in 1..2,
                      risk \in ValidRiskLevels} :
                   n \in 1..2}}

\* Projects with a number that is not positive, which Task(...) accepts: one
\* task of negative duration, one task of negative daily cost
NegativeSimulationInputs ==
    {<<<<TaskArgs(1, IdOf(1), 0 - NegDays, 1, <<>>)>>, 1, Low>>,
     <<<<TaskArgs(1, IdOf(1), 1, 0 - MaxCost, <<>>)>>, 1, Low>>}

\* a SimulationResult in the caller's hands
SampleResult == SimulationResult(<<3, 1, 2>>, <<2, 2>>, 3)

\* the series of a SimulationResult: every list of at most MaxSeries values
Series == UNION {[1..k -> (0 - NegDays)..MaxValue] : k \in 0..MaxSeries}

ShortSeries == {<<>>, <<2, 1>>}

ResultInputs ==
    {SimulationResult(c, t, Len(c)) :
        <<c, t>> \in (Series \X ShortSeries) \cup (ShortSeries \X Series)}

\* percentile arguments inside and outside 0..100
PercentileInputs ==
    {0 - 400, 0 - 150, 0 - 100, 0 - 50, 0 - 34, 0 - 33, 0 - 1,
     0, 10, 33, 34, 50, 67, 75, 90, 99, 100, 150, 300}

\* the constructed Projects the statistics are analysed for
StatisticsProjects ==
    {<<<<TaskArgs(1, IdOf(1), 1, 1, <<>>)>>, 1, Low>>,
     <<<<TaskArgs(1, IdOf(1), 1, 1, <<>>), TaskArgs(2, IdOf(2), 1, 1, <<IdOf(1)>>)>>,
       2, <<"h", "i", "g", "h">>>>,
     <<[k \in 1..3 |-> TaskArgs(k, IdOf(k), 1, 1, <<>>)], 1, <<"m", "e", "d", "i", "u", "m">>>>,
     <<<<TaskArgs(1, IdOf(1), 1, 1, <<MissingId>>)>>, 1, Low>>}

Inputs ==
    GraphInputs \cup IndependentInputs \cup NumberInputs \cup ConstructorInputs
    \cup DerivedIdInputs \cup CostInputs

(***************************************************************************)
(* The state machine.  pc: "new" (arguments, nothing constructed),         *)
(* "rejected" (the constructor raised ValueError), "ready" (a Project),    *)
(* "backtrack" and "schedule" (inside the loops of get_critical_path and   *)
(* of the schedule simulation), "returned", "raised".                      *)
(***************************************************************************)
NoValue == <<>>

Init ==
    /\ \E in \in Inputs : tasks = in[1] /\ team_size = in[2] /\ risk_level = in[3]
    /\ pc = "new"
    /\ call = "none"
    /\ ret = NoValue
    /\ cp = NoValue
    /\ sim = NoValue
    /\ simulator = NoValue
    /\ mc = NoValue
    /\ rng = NoValue
    /\ result = NoValue
    /\ arg = NoValue
    /\ session = NoValue
    /\ page = NoValue

\* Task(...) for every task, then Project(...)
Construct ==
    /\ pc = "new"
    /\ LET ts == [k \in 1..Len(tasks) |-> TaskPostInit(tasks[k])]
           r == ProjectPostInit(ts, team_size, risk_level)
       IN  /\ tasks' = ts
           /\ IF r = "ok"
              THEN pc' = "ready" /\ risk_level' = StrLower(risk_level) /\ ret' = ret
              ELSE pc' = "rejected" /\ risk_level' = risk_level /\ ret' = r
    /\ UNCHANGED <<team_size, call, cp, sim, session, page>>
    /\ UNCHANGED simvars

ValidateDependencies ==
    /\ pc = "ready"
    /\ pc' = "returned"
    /\ call' = "validate_dependencies"
    /\ ret' = validate_dependencies(tasks)
    /\ UNCHANGED <<tasks, team_size, risk_level, cp, sim, session, page>>
    /\ UNCHANGED simvars

CalculateSequentialTimeline ==
    /\ pc = "ready"
    /\ pc' = "returned"
    /\ call' = "calculate_sequential_timeline"
    /\ ret' = calculate_sequential_timeline(tasks, risk_level)
    /\ UNCHANGED <<tasks, team_size, risk_level, cp, sim, session, page>>
    /\ UNCHANGED simvars

CalculateCostBreakdown ==
    /\ pc = "ready"
    /\ pc' = "returned"
    /\ call' = "calculate_cost_breakdown"
    /\ ret' = calculate_cost_breakdown(tasks, team_size, risk_level)
    /\ UNCHANGED <<tasks, team_size, risk_level, cp, sim, session, page>>
    /\ UNCHANGED simvars

\* the schedule simulation up to its loop: the result when the team is large
\* enough, else the loop's initial locals
EnterSchedule(path) ==
    IF team_size >= task_count(tasks)
    THEN /\ pc' = "returned"
         /\ sim' = sim
         /\ ret' = IF call' = "calculate_parallel_timeline"
                   THEN ParallelResult(UnconstrainedTimeline(tasks),
                                       PathDuration(tasks, path), risk_level)
                   ELSE UnconstrainedTimeline(tasks)
    ELSE /\ pc' = "schedule"
         /\ sim' = InitSchedule(tasks)
         /\ ret' = ret

\* get_critical_path returns path: to its caller, to analyze_risk_drivers,
\* which returns its analysis, or to calculate_parallel_timeline, which goes
\* on to the schedule
CriticalPathExit(path) ==
    IF call' = "get_critical_path"
    THEN pc' = "returned" /\ ret' = path /\ sim' = sim
    ELSE IF call' = "analyze_risk_drivers"
         THEN /\ pc' = "returned"
              /\ ret' = analyze_risk_drivers(tasks, team_size, risk_level, result, path)
              /\ sim' = sim
         ELSE EnterSchedule(path)

\* get_critical_path up to its backtracking loop
EnterCriticalPath ==
    LET es == EarliestStart(tasks)
        end_task_id == EndTaskId(tasks, es)
        c == [earliest_start |-> es, critical_path |-> <<>>, current_id |-> end_task_id]
    IN  /\ cp' = c
        /\ IF Truthy(end_task_id)
           THEN pc' = "backtrack" /\ ret' = ret /\ sim' = sim
           ELSE CriticalPathExit(<<>>)

GetCriticalPath ==
    /\ pc = "ready"
    /\ call' = "get_critical_path"
    /\ EnterCriticalPath
    /\ UNCHANGED <<tasks, team_size, risk_level, session, page>>
    /\ UNCHANGED simvars

CalculateParallelTimeline ==
    /\ pc = "ready"
    /\ call' = "calculate_parallel_timeline"
    /\ EnterCriticalPath
    /\ UNCHANGED <<tasks, team_size, risk_level, session, page>>
    /\ UNCHANGED simvars

\* one iteration of the backtracking loop; on its exit get_critical_path
\* returns, and calculate_parallel_timeline goes on to the schedule
BacktrackStep ==
    /\ pc = "backtrack"
    /\ Len(cp.critical_path) <= 2 * MaxTasks
    /\ call' = call
    /\ LET b == BacktrackBody(tasks, cp)
       IN  /\ cp' = b.cp
           /\ IF b.status = "loop"
              THEN pc' = "backtrack" /\ ret' = ret /\ sim' = sim
              ELSE IF b.status = "KeyError"
                   THEN pc' = "raised" /\ ret' = "KeyError" /\ sim' = sim
                   ELSE CriticalPathExit(b.cp.critical_path)
    /\ UNCHANGED <<tasks, team_size, risk_level, session, page>>
    /\ UNCHANGED simvars

SimulateSchedule ==
    /\ pc = "ready"
    /\ call' = "_simulate_resource_constrained_schedule"
    /\ EnterSchedule(<<>>)
    /\ UNCHANGED <<tasks, team_size, risk_level, cp, session, page>>
    /\ UNCHANGED simvars

\* one iteration of the simulation loop; the loop's exit returns
ScheduleStep ==
    /\ pc = "schedule"
    /\ LET s == ScheduleBody(tasks, team_size, sim)
       IN  /\ sim' = s
           /\ IF LoopCondition(s)
              THEN pc' = "schedule" /\ ret' = ret
              ELSE /\ pc' = "returned"
                   /\ ret' = IF call = "calculate_parallel_timeline"
                             THEN ParallelResult(ScheduleResult(s),
                                                 PathDuration(tasks, cp.critical_path),
                                                 risk_level)
                             ELSE ScheduleResult(s)
    /\ UNCHANGED <<tasks, team_size, risk_level, call, cp, session, page>>
    /\ UNCHANGED simvars

(***************************************************************************)
(* The RiskSimulator: construction, run_simulation with one step per       *)
(* trial, analyze_risk_drivers.                                            *)
(***************************************************************************)
NewRiskSimulator ==
    /\ pc = "ready"
    /\ \E iterations \in IterationInputs :
           /\ arg' = iterations
           /\ simulator' = RiskSimulatorInit(iterations)
    /\ pc' = "returned"
    /\ call' = "RiskSimulator"
    /\ UNCHANGED <<tasks, team_size, risk_level, ret, cp, sim, mc, rng, result, session, page>>

\* run_simulation up to its loop; the generator is in any of its states
RunSimulation ==
    /\ pc = "ready"
    /\ simulator # NoValue
    /\ call' = "run_simulation"
    /\ \E g \in Generators : rng' = g
    /\ IF simulator.iterations > 0
       THEN /\ pc' = "trials"
            /\ mc' = [costs |-> <<>>, timelines |-> <<>>]
            /\ ret' = ret
       ELSE /\ pc' = "returned"
            /\ mc' = mc
            /\ ret' = SimulationResult(<<>>, <<>>, simulator.iterations)
    /\ UNCHANGED <<tasks, team_size, risk_level, cp, sim, simulator, result, arg, session, page>>

\* a trial that writes its perturbed durations into the tasks
SimulationTrialWritingTasks ==
    /\ pc = "trials"
    /\ tasks' = [i \in 1..Len(tasks) |-> [tasks[i] EXCEPT !.estimated_days = 2 * @]]
    /\ pc' = "returned"
    /\ ret' = SimulationResult(mc.costs, mc.timelines, simulator.iterations)
    /\ UNCHANGED <<team_size, risk_level, call, cp, sim, session, page>>
    /\ UNCHANGED simvars

\* one iteration of "for _ in range(self.iterations)"; after the last one
\* run_simulation returns the SimulationResult
SimulationTrial ==
    /\ pc = "trials"
    /\ LET scenario == simulate_single_scenario(tasks, team_size, risk_level, rng)
           costs == Append(mc.costs, scenario.total_cost)
           timelines == Append(mc.timelines, scenario.total_timeline)
       IN  /\ rng' = scenario.rng
           /\ mc' = [costs |-> costs, timelines |-> timelines]
           /\ IF Len(costs) < simulator.iterations
              THEN pc' = "trials" /\ ret' = ret
              ELSE /\ pc' = "returned"
                   /\ ret' = SimulationResult(costs, timelines, simulator.iterations)
    /\ UNCHANGED <<tasks, team_size, risk_level, call, cp, sim, simulator, result, arg, session, page>>

\* analyze_risk_drivers(result) up to the backtracking loop of the
\* get_critical_path it calls
AnalyzeRiskDrivers ==
    /\ pc = "ready"
    /\ simulator # NoValue
    /\ result # NoValue
    /\ call' = "analyze_risk_drivers"
    /\ EnterCriticalPath
    /\ UNCHANGED <<tasks, team_size, risk_level, session, page>>
    /\ UNCHANGED simvars

(***************************************************************************)
(* The statistics of the SimulationResult the caller holds.                *)
(***************************************************************************)
GetCostPercentile ==
    /\ pc = "ready"
    /\ result # NoValue
    /\ call' = "get_cost_percentile"
    /\ \E percentile \in PercentileInputs :
           LET r == get_cost_percentile(result, percentile)
           IN  /\ arg' = percentile
               /\ result' = [result EXCEPT !.costs = r.values]
               /\ IF r.raised THEN pc' = "raised" /\ ret' = "IndexError"
                  ELSE pc' = "returned" /\ ret' = r.value
    /\ UNCHANGED <<tasks, team_size, risk_level, cp, sim, simulator, mc, rng, session, page>>

GetTimelinePercentile ==
    /\ pc = "ready"
    /\ result # NoValue
    /\ call' = "get_timeline_percentile"
    /\ \E percentile \in PercentileInputs :
           LET r == get_timeline_percentile(result, percentile)
           IN  /\ arg' = percentile
               /\ result' = [result EXCEPT !.timelines = r.values]
               /\ IF r.raised THEN pc' = "raised" /\ ret' = "IndexError"
                  ELSE pc' = "returned" /\ ret' = r.value
    /\ UNCHANGED <<tasks, team_size, risk_level, cp, sim, simulator, mc, rng, session, page>>

\* the properties cost_mean, timeline_mean, cost_std and timeline_std
GetScenarios ==
    /\ pc = "ready"
    /\ result # NoValue
    /\ pc' = "returned"
    /\ call' = "get_scenarios"
    /\ ret' = get_scenarios(result)
    /\ UNCHANGED <<tasks, team_size, risk_level, cp, sim, session, page>>
    /\ UNCHANGED simvars

CostMean ==
    /\ pc = "ready"
    /\ result # NoValue
    /\ pc' = "returned"
    /\ call' = "cost_mean"
    /\ ret' = cost_mean(result)
    /\ UNCHANGED <<tasks, team_size, risk_level, cp, sim, session, page>>
    /\ UNCHANGED simvars

TimelineMean ==
    /\ pc = "ready"
    /\ result # NoValue
    /\ pc' = "returned"
    /\ call' = "timeline_mean"
    /\ ret' = timeline_mean(result)
    /\ UNCHANGED <<tasks, team_size, risk_level, cp, sim, session, page>>
    /\ UNCHANGED simvars

CostStd ==
    /\ pc = "ready"
    /\ result # NoValue
    /\ pc' = "returned"
    /\ call' = "cost_std"
    /\ ret' = cost_std(result)
    /\ UNCHANGED <<tasks, team_size, risk_level, cp, sim, session, page>>
    /\ UNCHANGED simvars

TimelineStd ==
    /\ pc = "ready"
    /\ result # NoValue
    /\ pc' = "returned"
    /\ call' = "timeline_std"
    /\ ret' = timeline_std(result)
    /\ UNCHANGED <<tasks, team_size, risk_level, cp, sim, session, page>>
    /\ UNCHANGED simvars

\* the caller drops the result; the Project is ready for the next call
Return ==
    /\ pc \in {"returned", "raised"}
    /\ pc' = "ready"
    /\ call' = "none"
    /\ ret' = NoValue
    /\ cp' = NoValue
    /\ sim' = NoValue
    /\ mc' = NoValue
    /\ rng' = NoValue
    /\ arg' = NoValue
    /\ UNCHANGED <<tasks, team_size, risk_level, simulator, result, session, page>>

Next ==
    \/ Construct
    \/ ValidateDependencies
    \/ CalculateSequentialTimeline
    \/ CalculateCostBreakdown
    \/ GetCriticalPath
    \/ CalculateParallelTimeline
    \/ BacktrackStep
    \/ SimulateSchedule
    \/ ScheduleStep
    \/ Return

Spec == Init /\ [][Next]_vars

\* the constructor's inputs alone: arguments it may reject, and Projects of
\* independent tasks
InitConstruction ==
    /\ \E in \in ConstructorInputs \cup IndependentInputs :
           tasks = in[1] /\ team_size = in[2] /\ risk_level = in[3]
    /\ pc = "new"
    /\ call = "none"
    /\ ret = NoValue
    /\ cp = NoValue
    /\ sim = NoValue
    /\ simulator = NoValue
    /\ mc = NoValue
    /\ rng = NoValue
    /\ result = NoValue
    /\ arg = NoValue
    /\ session = NoValue
    /\ page = NoValue

SpecConstruction == InitConstruction /\ [][Next]_vars

\* a Project, its calculator and its RiskSimulator
InitSimulation ==
    /\ \E in \in SimulationInputs \cup NegativeSimulationInputs :
           tasks = in[1] /\ team_size = in[2] /\ risk_level = in[3]
    /\ pc = "new"
    /\ call = "none"
    /\ ret = NoValue
    /\ cp = NoValue
    /\ sim = NoValue
    /\ simulator = NoValue
    /\ mc = NoValue
    /\ rng = NoValue
    /\ result = SampleResult
    /\ arg = NoValue
    /\ session = NoValue
    /\ page = NoValue

NextSimulation ==
    \/ Next
    \/ NewRiskSimulator
    \/ RunSimulation
    \/ SimulationTrial
    \/ AnalyzeRiskDrivers

SpecSimulation == InitSimulation /\ [][NextSimulation]_vars

\* a SimulationResult, with the RiskSimulator of a constructed Project to
\* analyse it
InitStatistics ==
    /\ \E in \in StatisticsProjects :
           tasks = in[1] /\ team_size = in[2] /\ risk_level = in[3]
    /\ pc = "ready"
    /\ call = "none"
    /\ ret = NoValue
    /\ cp = NoValue
    /\ sim = NoValue
    /\ simulator = RiskSimulatorInit(MinIterations)
    /\ mc = NoValue
    /\ rng = NoValue
    /\ result \in ResultInputs
    /\ arg = NoValue
    /\ session = NoValue
    /\ page = NoValue

NextStatistics ==
    \/ GetCostPercentile
    \/ GetTimelinePercentile
    \/ GetScenarios
    \/ CostMean
    \/ TimelineMean
    \/ CostStd
    \/ TimelineStd
    \/ AnalyzeRiskDrivers
    \/ BacktrackStep
    \/ Return

SpecStatistics == InitStatistics /\ [][NextStatistics]_vars

(***************************************************************************)
(* The dashboard (src/app.py).  Streamlit runs main() from top to bottom   *)
(* on every interaction; st.session_state and the values of the widgets    *)
(* survive from run to run.  session is                                    *)
(*   [tasks, team_size, risk_level, simulation_result, simulator]          *)
(* with tasks the list of dicts [name, id, days, cost_per_day,             *)
(* dependencies]; a RiskSimulator is held with the Project it was built    *)
(* for, [project, iterations].  page is what the last run did:             *)
(*   status    "info" (no tasks), "rendered", "error" (an exception        *)
(*             reached the except clause), "hang" (the run never ends) or  *)
(*             "running" (inside the Run Simulation branch),               *)
(*   project   the Project the run built,                                  *)
(*   displayed the stored result and simulator shown in the Monte Carlo    *)
(*             tab,                                                        *)
(*   generated the arguments passed to chart or PDF generation.            *)
(***************************************************************************)
MaxSessionTasks == 2

MaxSelected == 1

DefaultTeamSize == 3

Medium == <<"m", "e", "d", "i", "u", "m">>

\* st.text_input("Task Name"): empty, or a name; "A" and "a" give the same id
DashboardNames == {<<>>, <<"A">>, <<"a">>, <<"B">>}

\* the names of the tasks that are added without dependencies
IndependentNames == {<<>>, <<"A">>, <<"B">>}

\* st.number_input("Team Size", min_value=1, max_value=50, value=3)
TeamSizeInputs == {1, DefaultTeamSize}

\* st.selectbox("Risk Level", ["low", "medium", "high"], index=1)
RiskLevelInputs == {Medium, <<"h", "i", "g", "h">>}

\* st.slider("Number of Simulations", 100, 5000, 1000, 100), at its minimum
SliderIterations == MinIterations

\* the generator at the start of a run
DashboardGenerators == {[u |-> <<0, 1>>, g |-> <<0 - 30, 20>>, iu |-> 1, ig |-> 1]}

\* task_name.lower().replace(" ", "_")[:20]
SessionTaskId(task_name) == StrPrefix(StrReplaceSpace(StrLower(task_name)), TaskIdLen)

\* for t in st.session_state.tasks: if t['name'] == dep_name: ... break
RECURSIVE FirstIdByName(_, _)
FirstIdByName(ts, dep_name) ==
    IF ts = <<>> THEN <<>>
    ELSE IF Head(ts).name = dep_name THEN <<Head(ts).id>>
         ELSE FirstIdByName(Tail(ts), dep_name)

\* convert dependency names to ids
RECURSIVE DepIds(_, _)
DepIds(ts, dependencies) ==
    IF dependencies = <<>> THEN <<>>
    ELSE FirstIdByName(ts, Head(dependencies)) \o DepIds(ts, Tail(dependencies))

\* the options of the multiselect, and the selections of at most
\* MaxSelected of them
DependencyOptions(ts) == {ts[k].name : k \in 1..Len(ts)}

Selections(ts) == ListsUpTo(DependencyOptions(ts), MaxSelected)

\* st.session_state.tasks.append({...})
AppendTask(s, task_name, days, cost_per_day, dependencies) ==
    [s EXCEPT !.tasks = Append(@, [name |-> task_name,
                                   id |-> SessionTaskId(task_name),
                                   days |-> days,
                                   cost_per_day |-> cost_per_day,
                                   dependencies |-> DepIds(s.tasks, dependencies)])]

\* st.session_state.tasks.pop(idx), idx counted from 1
PopTask(ts, idx) == SubSeq(ts, 1, idx - 1) \o SubSeq(ts, idx + 1, Len(ts))

\* task_objects = [Task(name=..., estimated_days=..., ...) for t in tasks]
TaskObjects(ts) ==
    [k \in 1..Len(ts) |->
        TaskPostInit([name |-> ts[k].name, estimated_days |-> ts[k].days,
                      cost_per_day |-> ts[k].cost_per_day,
                      dependencies |-> ts[k].dependencies, task_id |-> ts[k].id])]

\* project = Project(name=..., tasks=task_objects, team_size=..., risk_level=...)
BuildProject(s) ==
    [tasks |-> TaskObjects(s.tasks), team_size |-> s.team_size,
     risk_level |-> StrLower(s.risk_level)]

\* get_critical_path run to its end: "exit" or "KeyError"
RECURSIVE BacktrackRun(_, _)
BacktrackRun(ts, c) ==
    LET b == BacktrackBody(ts, c)
    IN  IF b.status = "loop" /\ Len(b.cp.critical_path) <= 2 * Len(ts)
        THEN BacktrackRun(ts, b.cp)
        ELSE b.status

CriticalPathRun(ts) ==
    LET es == EarliestStart(ts)
        end_task_id == EndTaskId(ts, es)
    IN  IF Truthy(end_task_id)
        THEN BacktrackRun(ts, [earliest_start |-> es, critical_path |-> <<>>,
                               current_id |-> end_task_id])
        ELSE "exit"

\* the loop of the schedule simulation run to its end: "exit", or "hang"
\* when an iteration leaves the loop's locals as they are
RECURSIVE ScheduleRun(_, _, _, _)
ScheduleRun(ts, team, s, fuel) ==
    LET n == ScheduleBody(ts, team, s)
    IN  IF ~LoopCondition(n) THEN "exit"
        ELSE IF n = s \/ fuel = 0 THEN "hang"
             ELSE ScheduleRun(ts, team, n, fuel - 1)

\* the Overview and Analysis tabs: calculate_cost_breakdown,
\* calculate_timeline_breakdown (get_critical_path, then
\* calculate_parallel_timeline), calculate_task_costs,
\* get_critical_path_analysis
TabsOutcome(p) ==
    IF ProjectPostInit(p.tasks, p.team_size, p.risk_level) # "ok" THEN "error"
    ELSE IF CriticalPathRun(p.tasks) = "KeyError" THEN "error"
    ELSE IF /\ p.team_size < task_count(p.tasks)
            /\ ScheduleRun(p.tasks, p.team_size, InitSchedule(p.tasks),
                           4 * Len(p.tasks)) = "hang"
         THEN "hang"
         ELSE "rendered"

NoPage(status, p) ==
    [status |-> status, project |-> p, displayed |-> NoValue, generated |-> NoValue]

\* the Monte Carlo and Charts tabs of a session that holds a result: the
\* stored result and simulator are shown, and passed on when click is
\* "charts" or "pdf"
ResultPage(s, p, click) ==
    [status |-> "rendered",
     project |-> p,
     displayed |-> [simulation_result |-> s.simulation_result,
                    simulator |-> s.simulator],
     generated |-> IF click \in {"charts", "pdf"}
                   THEN [kind |-> click,
                         project |-> p,
                         simulation_result |-> s.simulation_result,
                         simulator |-> IF click = "pdf" THEN s.simulator ELSE NoValue]
                   ELSE NoValue]

\* one run of main() in which the Run Simulation button is not pressed;
\* click is "none", "charts" or "pdf".  With a stored result and no stored
\* simulator, st.session_state.simulator raises and the run ends in the
\* except clause.
Rerun(s, click) ==
    IF s.tasks = <<>> THEN NoPage("info", NoValue)
    ELSE LET p == BuildProject(s)
             outcome == TabsOutcome(p)
         IN  IF outcome # "rendered" THEN NoPage(outcome, p)
             ELSE IF s.simulation_result = NoValue THEN NoPage("rendered", p)
                  ELSE IF s.simulator = NoValue THEN NoPage("error", p)
                       ELSE ResultPage(s, p, click)

\* Streamlit delivers the rerun that an interaction requests when the script
\* is idle, or at the script's next access of st.session_state when it is
\* inside run_simulation: the assignment of simulation_result
\* (run_simulation has returned, nothing is stored yet) or the assignment of
\* simulator (the result is stored, the simulator is not).  The run under way
\* is dropped and main() starts again.
Delivered ==
    \/ pc = "dashboard"
    \/ /\ call = "run_simulation"
       /\ session # NoValue
       /\ pc \in {"returned", "stored"}

\* the task form is submitted; with a name the task is appended and the
\* script reruns, without one the run goes on
AddTask ==
    /\ Delivered
    /\ Len(session.tasks) < MaxSessionTasks
    /\ \E task_name \in DashboardNames : \E dependencies \in Selections(session.tasks) :
           LET s == IF task_name # <<>>
                    THEN AppendTask(session, task_name, 1, 1, dependencies)
                    ELSE session
           IN  session' = s /\ page' = Rerun(s, "none")
    /\ tasks' = NoValue
    /\ team_size' = NoValue
    /\ risk_level' = NoValue
    /\ simulator' = NoValue
    /\ mc' = NoValue
    /\ rng' = NoValue
    /\ ret' = NoValue
    /\ pc' = "dashboard"
    /\ call' = "none"
    /\ UNCHANGED <<cp, sim, result, arg>>

\* the task form is submitted with no dependency selected
AddIndependentTask ==
    /\ Delivered
    /\ Len(session.tasks) < MaxSessionTasks
    /\ \E task_name \in IndependentNames :
           LET s == IF task_name # <<>>
                    THEN AppendTask(session, task_name, 1, 1, <<>>)
                    ELSE session
           IN  session' = s /\ page' = Rerun(s, "none")
    /\ tasks' = NoValue
    /\ team_size' = NoValue
    /\ risk_level' = NoValue
    /\ simulator' = NoValue
    /\ mc' = NoValue
    /\ rng' = NoValue
    /\ ret' = NoValue
    /\ pc' = "dashboard"
    /\ call' = "none"
    /\ UNCHANGED <<cp, sim, result, arg>>

\* the delete button of task idx
DeleteTask ==
    /\ Delivered
    /\ \E idx \in 1..Len(session.tasks) :
           LET s == [session EXCEPT !.tasks = PopTask(@, idx)]
           IN  session' = s /\ page' = Rerun(s, "none")
    /\ tasks' = NoValue
    /\ team_size' = NoValue
    /\ risk_level' = NoValue
    /\ simulator' = NoValue
    /\ mc' = NoValue
    /\ rng' = NoValue
    /\ ret' = NoValue
    /\ pc' = "dashboard"
    /\ call' = "none"
    /\ UNCHANGED <<cp, sim, result, arg>>

SetTeamSize ==
    /\ Delivered
    /\ \E n \in TeamSizeInputs \ {session.team_size} :
           LET s == [session EXCEPT !.team_size = n]
           IN  session' = s /\ page' = Rerun(s, "none")
    /\ tasks' = NoValue
    /\ team_size' = NoValue
    /\ risk_level' = NoValue
    /\ simulator' = NoValue
    /\ mc' = NoValue
    /\ rng' = NoValue
    /\ ret' = NoValue
    /\ pc' = "dashboard"
    /\ call' = "none"
    /\ UNCHANGED <<cp, sim, result, arg>>

SetRiskLevel ==
    /\ Delivered
    /\ \E r \in RiskLevelInputs \ {session.risk_level} :
           LET s == [session EXCEPT !.risk_level = r]
           IN  session' = s /\ page' = Rerun(s, "none")
    /\ tasks' = NoValue
    /\ team_size' = NoValue
    /\ risk_level' = NoValue
    /\ simulator' = NoValue
    /\ mc' = NoValue
    /\ rng' = NoValue
    /\ ret' = NoValue
    /\ pc' = "dashboard"
    /\ call' = "none"
    /\ UNCHANGED <<cp, sim, result, arg>>

\* the Run Simulation button is on every page whose Overview and Analysis
\* tabs were rendered, also on one that ended with an error further down
RunButtonShown(s) ==
    /\ s.tasks # <<>>
    /\ TabsOutcome(BuildProject(s)) = "rendered"

\* the Run Simulation button: the script reruns, builds the Project and a
\* RiskSimulator for it, and run_simulation starts; a click during a run
\* drops that run and starts another
ClickRunSimulation ==
    /\ Delivered
    /\ RunButtonShown(session)
    /\ LET p == BuildProject(session)
       IN  /\ tasks' = p.tasks
           /\ team_size' = p.team_size
           /\ risk_level' = p.risk_level
           /\ page' = NoPage("running", p)
    /\ simulator' = RiskSimulatorInit(SliderIterations)
    /\ mc' = [costs |-> <<>>, timelines |-> <<>>]
    /\ \E g \in DashboardGenerators : rng' = g
    /\ ret' = NoValue
    /\ pc' = "trials"
    /\ call' = "run_simulation"
    /\ UNCHANGED <<cp, sim, result, arg, session>>

\* st.session_state.simulation_result = result
StoreResult ==
    /\ pc = "returned"
    /\ call = "run_simulation"
    /\ session # NoValue
    /\ session' = [session EXCEPT !.simulation_result = ret]
    /\ pc' = "stored"
    /\ UNCHANGED <<tasks, team_size, risk_level, call, ret, cp, sim, page>>
    /\ UNCHANGED simvars

\* st.session_state.simulator = simulator, and the rest of the script, which
\* shows what the session holds
StoreSimulation ==
    /\ pc = "stored"
    /\ call = "run_simulation"
    /\ LET p == [tasks |-> tasks, team_size |-> team_size, risk_level |-> risk_level]
           s == [session EXCEPT
                   !.simulator = [project |-> p, iterations |-> simulator.iterations]]
       IN  session' = s /\ page' = ResultPage(s, p, "none")
    /\ tasks' = NoValue
    /\ team_size' = NoValue
    /\ risk_level' = NoValue
    /\ simulator' = NoValue
    /\ mc' = NoValue
    /\ rng' = NoValue
    /\ ret' = NoValue
    /\ pc' = "dashboard"
    /\ call' = "none"
    /\ UNCHANGED <<cp, sim, result, arg>>

\* the chart and PDF buttons are inside "if 'simulation_result' in
\* st.session_state", below the display of the stored result: they are on a
\* page that showed one, which during a run is the page of before the run
ChartButtonsShown ==
    IF pc = "dashboard"
    THEN page.status = "rendered" /\ page.displayed # NoValue
    ELSE session.simulation_result # NoValue /\ session.simulator # NoValue

ClickGenerateCharts ==
    /\ Delivered
    /\ ChartButtonsShown
    /\ page' = Rerun(session, "charts")
    /\ tasks' = NoValue
    /\ team_size' = NoValue
    /\ risk_level' = NoValue
    /\ simulator' = NoValue
    /\ mc' = NoValue
    /\ rng' = NoValue
    /\ ret' = NoValue
    /\ pc' = "dashboard"
    /\ call' = "none"
    /\ UNCHANGED <<cp, sim, result, arg, session>>

ClickGeneratePdf ==
    /\ Delivered
    /\ ChartButtonsShown
    /\ page' = Rerun(session, "pdf")
    /\ tasks' = NoValue
    /\ team_size' = NoValue
    /\ risk_level' = NoValue
    /\ simulator' = NoValue
    /\ mc' = NoValue
    /\ rng' = NoValue
    /\ ret' = NoValue
    /\ pc' = "dashboard"
    /\ call' = "none"
    /\ UNCHANGED <<cp, sim, result, arg, session>>

\* the first run of a new session
InitDashboard ==
    /\ tasks = NoValue
    /\ team_size = NoValue
    /\ risk_level = NoValue
    /\ pc = "dashboard"
    /\ call = "none"
    /\ ret = NoValue
    /\ cp = NoValue
    /\ sim = NoValue
    /\ simulator = NoValue
    /\ mc = NoValue
    /\ rng = NoValue
    /\ result = NoValue
    /\ arg = NoValue
    /\ session = [tasks |-> <<>>, team_size |-> DefaultTeamSize, risk_level |-> Medium,
                  simulation_result |-> NoValue, simulator |-> NoValue]
    /\ page = NoPage("info", NoValue)

\* the task list and the configuration
NextTaskList ==
    \/ AddTask
    \/ DeleteTask
    \/ SetTeamSize
    \/ SetRiskLevel

SpecTaskList == InitDashboard /\ [][NextTaskList]_vars

\* the dashboard with its simulation, for tasks without dependencies
NextDashboard ==
    \/ AddIndependentTask
    \/ DeleteTask
    \/ SetTeamSize
    \/ SetRiskLevel
    \/ ClickRunSimulation
    \/ SimulationTrial
    \/ StoreResult
    \/ StoreSimulation
    \/ ClickGenerateCharts
    \/ ClickGeneratePdf

SpecDashboard == InitDashboard /\ [][NextDashboard]_vars

(***************************************************************************)
(* The dependency graph as the properties speak of it: task i depends on   *)
(* task j when i lists the id of j.                                        *)
(***************************************************************************)
Resolved(ts) ==
    \A i \in 1..Len(ts) : \A k \in 1..Len(ts[i].dependencies) :
        ts[i].dependencies[k] \in TaskIds(ts)

DependsOn(ts, i, j) == InSeq(ts[j].task_id, ts[i].dependencies)

\* a directed cycle: tasks p[1], ..., p[k], each depending on the next and
\* the last on the first
Cyclic(ts) ==
    \E k \in 1..Len(ts) : \E p \in [1..k -> 1..Len(ts)] :
        /\ \A m \in 1..(k - 1) : DependsOn(ts, p[m], p[m + 1])
        /\ DependsOn(ts, p[k], p[1])

Acyclic(ts) == ~Cyclic(ts)

DistinctIds(ts) == \A i, j \in 1..Len(ts) : i # j => ts[i].task_id # ts[j].task_id

PositiveNumbers(ts) ==
    \A i \in 1..Len(ts) : ts[i].estimated_days > 0 /\ ts[i].cost_per_day > 0

Returned(op) == pc = "returned" /\ call = op

(***************************************************************************)
(* C1: for every constructed Project whose dependency graph is acyclic and *)
(* fully resolved, calculate_sequential_timeline() is at least             *)
(* calculate_parallel_timeline(), whatever the team size and risk tier.    *)
(* The code breaks it for a Project with a task of negative duration,      *)
(* which Task construction accepts.                                        *)
(***************************************************************************)
C1_SequentialAtLeastParallel ==
    (Returned("calculate_parallel_timeline") /\ Acyclic(tasks) /\ Resolved(tasks))
        => calculate_sequential_timeline(tasks, risk_level) >= ret

(***************************************************************************)
(* C2: whenever calculate_parallel_timeline() returns, the summed duration *)
(* of the critical path it computed, times the risk multiplier, is at most *)
(* the returned timeline.                                                  *)
(***************************************************************************)
C2_CriticalPathLowerBound ==
    Returned("calculate_parallel_timeline")
        => PathDuration(tasks, cp.critical_path) * Scale * get_risk_multiplier(risk_level)
               <= ret

\* the floor decides: the schedule alone is shorter than the critical path
C2_Witness ==
    /\ Returned("calculate_parallel_timeline")
    /\ Len(cp.critical_path) >= 2
    /\ team_size >= Len(tasks)
    /\ UnconstrainedTimeline(tasks) < PathDuration(tasks, cp.critical_path) * Scale

(***************************************************************************)
(* The longest duration-weighted dependency chain, for an acyclic and      *)
(* fully resolved graph: the earliest start of a task is the greatest      *)
(* earliest finish among the tasks it depends on, 0 when it has none.      *)
(***************************************************************************)
RECURSIVE ChainStart(_, _)
ChainStart(ts, i) ==
    LET preds == {j \in 1..Len(ts) : DependsOn(ts, i, j)}
    IN  IF preds = {} THEN 0
        ELSE MaxOf({ChainStart(ts, j) + ts[j].estimated_days : j \in preds} \cup {0})

LongestChain(ts) ==
    MaxOf({ChainStart(ts, i) + ts[i].estimated_days : i \in 1..Len(ts)})

(***************************************************************************)
(* C3: for an acyclic, fully resolved Project get_critical_path() returns  *)
(* a non-empty list whose first task has no dependencies, in which each    *)
(* later task lists the task before it as a dependency, and whose total    *)
(* duration is the greatest (earliest start + duration) over all tasks.    *)
(* The code breaks it when two tasks share an id, which Project            *)
(* construction accepts.                                                   *)
(***************************************************************************)
C3_CriticalPathIsLongestChain ==
    (Returned("get_critical_path") /\ Acyclic(tasks) /\ Resolved(tasks))
        => /\ ret # <<>>
           /\ tasks[ret[1]].dependencies = <<>>
           /\ \A k \in 2..Len(ret) : DependsOn(tasks, ret[k], ret[k - 1])
           /\ PathDuration(tasks, ret) = LongestChain(tasks)

(***************************************************************************)
(* C4: for a Project in which no task has dependencies and team_size >=    *)
(* task_count, calculate_parallel_timeline() is the greatest task duration *)
(* times the risk multiplier.  The code breaks it when three tasks share   *)
(* an id.                                                                  *)
(***************************************************************************)
C4_IndependentTasksTakeTheLongest ==
    (/\ Returned("calculate_parallel_timeline")
     /\ \A i \in 1..Len(tasks) : tasks[i].dependencies = <<>>
     /\ team_size >= Len(tasks))
        => ret = MaxOf({tasks[i].estimated_days : i \in 1..Len(tasks)})
                   * Scale * get_risk_multiplier(risk_level)

(***************************************************************************)
(* C5: validate_dependencies() returns exactly one circular-dependencies   *)
(* error when the dependency graph has a directed cycle and none when it   *)
(* is acyclic; ids that match no task are leaves.  The code breaks it      *)
(* when two tasks share an id: the adjacency dict keeps the dependencies   *)
(* of the last of them only.                                               *)
(***************************************************************************)
CircularErrors(errors) == Cardinality({k \in 1..Len(errors) : errors[k].kind = "circular"})

C5_CircularErrorIffCycle ==
    Returned("validate_dependencies")
        => CircularErrors(ret) = (IF Cyclic(tasks) THEN 1 ELSE 0)

(***************************************************************************)
(* C6: validate_dependencies() returns one error per (task, dependency id) *)
(* pair whose id matches no task, naming the task and the id, in task      *)
(* order and before any circular-dependency error, and the list is empty   *)
(* exactly when every id resolves and the graph is acyclic.  The code      *)
(* breaks the last part when two tasks share an id.                        *)
(***************************************************************************)
MissingPairs(ts) ==
    UNION {{<<i, k>> : k \in {k \in 1..Len(ts[i].dependencies) :
                                 ts[i].dependencies[k] \notin TaskIds(ts)}} :
           i \in 1..Len(ts)}

C6_OneErrorPerMissingReference ==
    Returned("validate_dependencies")
        => LET n == Cardinality(MissingPairs(tasks))
           IN  /\ Len(ret) >= n
               /\ \A k \in 1..Len(ret) : (ret[k].kind = "non-existent") <=> (k <= n)
               /\ \A pr \in MissingPairs(tasks) :
                      \E k \in 1..n :
                          /\ ret[k].task = tasks[pr[1]].name
                          /\ ret[k].dep = tasks[pr[1]].dependencies[pr[2]]
                          /\ k = Cardinality({q \in MissingPairs(tasks) :
                                     q[1] < pr[1] \/ (q[1] = pr[1] /\ q[2] <= pr[2])})
               /\ (ret = <<>>) <=> (Resolved(tasks) /\ Acyclic(tasks))

(***************************************************************************)
(* C7: for an acyclic Project in which some task names a dependency id     *)
(* that matches no task, get_critical_path() raises nothing.  The code     *)
(* raises KeyError when the backtracking loop reads earliest_start of the  *)
(* missing id.                                                             *)
(***************************************************************************)
C7_CriticalPathToleratesMissingDependency ==
    (call = "get_critical_path" /\ Acyclic(tasks) /\ ~Resolved(tasks))
        => pc # "raised"

(***************************************************************************)
(* C8: for an acyclic Project with team_size < task_count in which some    *)
(* task names a dependency id that matches no task, the schedule           *)
(* simulation terminates: no iteration of its loop leaves the loop's       *)
(* locals as they were with tasks still to schedule.  In the code the task *)
(* with the missing dependency is never ready, and the loop repeats the    *)
(* same iteration forever.                                                 *)
(***************************************************************************)
C8_ScheduleWithMissingDependencyTerminates ==
    (pc = "schedule" /\ Acyclic(tasks) /\ ~Resolved(tasks))
        => ScheduleBody(tasks, team_size, sim) # sim

(***************************************************************************)
(* C9: Project construction raises for an empty task list, a team size     *)
(* <= 0 or a risk level that is not low, medium or high whatever its case, *)
(* and otherwise yields a Project with at least one task, team_size >= 1   *)
(* and the risk level in lower case.                                       *)
(***************************************************************************)
C9_ConstructionValidates ==
    [][pc = "new" =>
         IF \/ tasks = <<>>
            \/ team_size <= 0
            \/ StrLower(risk_level) \notin
                   {<<"l", "o", "w">>, <<"m", "e", "d", "i", "u", "m">>, <<"h", "i", "g", "h">>}
         THEN pc' = "rejected"
         ELSE /\ pc' = "ready"
              /\ Len(tasks') >= 1
              /\ team_size' >= 1
              /\ risk_level' = StrLower(risk_level)
              /\ risk_level' \in
                     {<<"l", "o", "w">>, <<"m", "e", "d", "i", "u", "m">>, <<"h", "i", "g", "h">>}]_vars

\* a constructor call rejected for its risk level alone
C9_Witness ==
    /\ pc = "rejected"
    /\ tasks # <<>>
    /\ team_size >= 1
    /\ ret = "Risk level must be one of"

(***************************************************************************)
(* C10: constructing a Task with estimated_days <= 0 or cost_per_day <= 0  *)
(* fails, so every Task that exists has a positive duration and a positive *)
(* cost per day.  The code's Task.__post_init__ checks neither.            *)
(***************************************************************************)
C10_TasksArePositive ==
    pc # "new" => PositiveNumbers(tasks)

(***************************************************************************)
(* C11: in every successfully constructed Project the task_ids are         *)
(* pairwise distinct, also when they are derived from names that differ    *)
(* only in case, in spaces against underscores, or after the 20th          *)
(* character.  The code's Project.__post_init__ never compares ids.        *)
(***************************************************************************)
C11_TaskIdsDistinct ==
    pc \notin {"new", "rejected"} => DistinctIds(tasks)

(***************************************************************************)
(* C12: no step of validate_dependencies, get_critical_path, the           *)
(* calculator's operations, the construction of a RiskSimulator,           *)
(* run_simulation or analyze_risk_drivers changes the constructed          *)
(* Project: its task list and order, every task's fields, team_size and    *)
(* risk_level stay as they are.                                            *)
(***************************************************************************)
C12_ProjectIsNeverMutated ==
    [][pc # "new" =>
         /\ tasks' = tasks
         /\ team_size' = team_size
         /\ risk_level' = risk_level]_vars

\* a simulation run on a Project with a dependency has returned
C12_Witness ==
    /\ Returned("run_simulation")
    /\ Len(mc.costs) = simulator.iterations
    /\ \E i \in 1..Len(tasks) : tasks[i].dependencies # <<>>
    /\ team_size < Len(tasks)

(***************************************************************************)
(* C13: calculate_cost_breakdown() returns base_cost = the sum over tasks  *)
(* of estimated_days x cost_per_day, total_cost = base_cost x m with m =   *)
(* 1.1 for low, 1.3 for medium and 1.6 for high, risk_overhead =           *)
(* total_cost - base_cost, so that total_cost = base_cost + risk_overhead, *)
(* and cost_per_resource = total_cost / team_size.                         *)
(***************************************************************************)
TierMultiplier ==
    IF risk_level = <<"l", "o", "w">> THEN Frac(11, 10)
    ELSE IF risk_level = <<"m", "e", "d", "i", "u", "m">> THEN Frac(13, 10)
    ELSE Frac(16, 10)

C13_CostBreakdown ==
    Returned("calculate_cost_breakdown")
        => LET base == SumSeq([i \in 1..Len(tasks) |->
                                 tasks[i].estimated_days * tasks[i].cost_per_day])
           IN  /\ FracEq(ret.base_cost, Frac(base, 1))
               /\ FracEq(ret.total_cost, FracMul(ret.base_cost, TierMultiplier))
               /\ FracEq(ret.risk_overhead, FracSub(ret.total_cost, ret.base_cost))
               /\ FracEq(ret.total_cost, FracAdd(ret.base_cost, ret.risk_overhead))
               /\ FracEq(FracMul(ret.cost_per_resource, Frac(team_size, 1)), ret.total_cost)

\* a high-risk Project of two tasks with different costs, shared by two people
C13_Witness ==
    /\ Returned("calculate_cost_breakdown")
    /\ risk_level = <<"h", "i", "g", "h">>
    /\ team_size = 2
    /\ Len(tasks) = 2
    /\ tasks[1].cost_per_day # tasks[2].cost_per_day
    /\ FracEq(ret.risk_overhead, Frac(6 * total_base_cost(tasks), 10))

(***************************************************************************)
(* C14: a RiskSimulator built for a requested count k holds iterations =   *)
(* max(100, k), also for k below 100, zero or negative; run_simulation()   *)
(* returns only after that many trials, a SimulationResult with that       *)
(* iterations value and with costs and timelines of exactly that length.   *)
(***************************************************************************)
C14_IterationsClampedAndComplete ==
    /\ Returned("RiskSimulator")
           => simulator.iterations = (IF arg >= 100 THEN arg ELSE 100)
    /\ pc = "trials"
           => /\ Len(mc.costs) < simulator.iterations
              /\ Len(mc.timelines) = Len(mc.costs)
    /\ Returned("run_simulation")
           => /\ simulator.iterations >= 100
              /\ ret.iterations = simulator.iterations
              /\ Len(ret.costs) = ret.iterations
              /\ Len(ret.timelines) = ret.iterations

\* a run of exactly the minimum number of trials, not all with the same cost
C14_Witness ==
    /\ Returned("run_simulation")
    /\ ret.iterations = 100
    /\ Len(ret.costs) = 100
    /\ \E i \in 1..Len(ret.costs) : ret.costs[i] # ret.costs[1]

(***************************************************************************)
(* The series a percentile call reads, and its values.                     *)
(***************************************************************************)
PercentileCalls == {"get_cost_percentile", "get_timeline_percentile"}

SeriesOf(op, r) == IF op = "get_cost_percentile" THEN r.costs ELSE r.timelines

Values(series) == {series[i] : i \in 1..Len(series)}

(***************************************************************************)
(* C15: on a non-empty series the percentile at p = 0 is the least element *)
(* and the percentile at p = 100 the greatest, and a percentile call       *)
(* leaves the series as it was.                                            *)
(***************************************************************************)
C15_PercentileEndsAndFrame ==
    [][(pc = "ready" /\ call' \in PercentileCalls) =>
           LET series == SeriesOf(call', result)
           IN  /\ result' = result
               /\ (series # <<>> /\ arg' = 0)
                      => (pc' = "returned" /\ ret' = MinOf(Values(series)))
               /\ (series # <<>> /\ arg' = 100)
                      => (pc' = "returned" /\ ret' = MaxOf(Values(series)))]_vars

\* the maximum of an unsorted series of three costs
C15_Witness ==
    /\ Returned("get_cost_percentile")
    /\ arg = 100
    /\ Len(result.costs) = 3
    /\ result.costs[1] > result.costs[3]
    /\ result.costs[3] > result.costs[2]
    /\ ret = result.costs[1]

(***************************************************************************)
(* C16: for a non-empty series of n values and every percentile argument   *)
(* p, also p < 0 and p > 100, calculate_percentile returns the element of  *)
(* the ascending sort at index floor(n x p / 100) clamped to 0..n-1.  The  *)
(* code clamps the index from above only: a negative index counts from     *)
(* the end of the list or raises IndexError.                               *)
(***************************************************************************)
C16_PercentileIsClampedNearestRank ==
    (call \in PercentileCalls /\ pc \in {"returned", "raised"}
        /\ SeriesOf(call, result) # <<>>)
        => LET series == SeriesOf(call, result)
               n == Len(series)
               rank == (n * arg) \div 100
               index == IF rank < 0 THEN 0 ELSE IF rank > n - 1 THEN n - 1 ELSE rank
           IN  pc = "returned" /\ ret = Sorted(series)[index + 1]

(***************************************************************************)
(* C17: on an empty series the percentile, the mean and the standard       *)
(* deviation are 0 and nothing is raised; analyze_risk_drivers divides by  *)
(* no zero, and the variability it reports for an empty series is 0.       *)
(***************************************************************************)
IsZeroFraction(q) == q[1] = 0 /\ q[2] > 0

C17_EmptySeriesGiveZero ==
    /\ (call \in PercentileCalls /\ pc \in {"returned", "raised"}
            /\ SeriesOf(call, result) = <<>>)
           => (pc = "returned" /\ ret = 0)
    /\ (Returned("cost_mean") /\ result.costs = <<>>) => IsZeroFraction(ret)
    /\ (Returned("timeline_mean") /\ result.timelines = <<>>) => IsZeroFraction(ret)
    /\ (Returned("cost_std") /\ result.costs = <<>>) => IsZeroFraction(ret.root_of)
    /\ (Returned("timeline_std") /\ result.timelines = <<>>) => IsZeroFraction(ret.root_of)
    /\ (call = "analyze_risk_drivers" /\ pc = "raised") => ret = "KeyError"
    /\ Returned("analyze_risk_drivers")
           => /\ ret.cost_variability.root_of[2] > 0
              /\ ret.timeline_variability.root_of[2] > 0
              /\ result.costs = <<>> => IsZeroFraction(ret.cost_variability.root_of)
              /\ result.timelines = <<>> => IsZeroFraction(ret.timeline_variability.root_of)

\* the analysis of a result without costs and without timelines
C17_Witness ==
    /\ Returned("analyze_risk_drivers")
    /\ result.costs = <<>>
    /\ result.timelines = <<>>
    /\ IsZeroFraction(ret.cost_variability.root_of)
    /\ ret.confidence_80_percent.cost_range = <<0, 0>>

(***************************************************************************)
(* C18: in the loop of the schedule simulation the number of tasks that    *)
(* are started and not yet finished is at most team_size, also when        *)
(* several tasks are ready at the same clock value.  The code tests the    *)
(* capacity against active_tasks as it is before the round's starts, so    *)
(* every ready task of a round is started once one place is free.          *)
(***************************************************************************)
C18_ActiveTasksWithinTeam ==
    pc = "schedule"
        => LET s == ScheduleAdmit(tasks, team_size, sim)
           IN  Len(StillActive(tasks, s, s.active_tasks)) <= team_size

(***************************************************************************)
(* C19: in the loop of the schedule simulation and at its return, every    *)
(* task with a recorded start has, for each of its declared dependencies,  *)
(* a recorded finish that is at most that start.  The code keeps both      *)
(* records by task id, so a later task with the same id overwrites them.   *)
(***************************************************************************)
C19_StartsAfterDependencies ==
    (pc \in {"schedule", "returned"} /\ sim # NoValue)
        => \A i \in 1..Len(tasks) :
               tasks[i].task_id \in DOMAIN sim.scheduled_start
                   => \A k \in 1..Len(tasks[i].dependencies) :
                          /\ tasks[i].dependencies[k] \in DOMAIN sim.scheduled_finish
                          /\ sim.scheduled_start[tasks[i].task_id]
                                 >= sim.scheduled_finish[tasks[i].dependencies[k]]

(***************************************************************************)
(* C20: for an acyclic, fully resolved Project with positive durations and *)
(* team_size < task_count the schedule simulation terminates (no iteration *)
(* puts a task back or turns the clock back, every iteration starts a task *)
(* or advances the clock or ends the loop, and the clock stays within the  *)
(* total duration), starts every task, and returns the greatest finish     *)
(* time, start + duration, over all tasks.  The code returns less when two *)
(* tasks share an id.                                                      *)
(***************************************************************************)
C20_ScheduleCompletes ==
    (/\ call = "_simulate_resource_constrained_schedule"
     /\ Acyclic(tasks) /\ Resolved(tasks) /\ PositiveNumbers(tasks)
     /\ team_size < Len(tasks))
        => /\ pc = "schedule"
                  => LET s == ScheduleBody(tasks, team_size, sim)
                     IN  /\ Len(s.remaining_tasks) <= Len(sim.remaining_tasks)
                         /\ s.current_time >= sim.current_time
                         /\ \/ Len(s.remaining_tasks) < Len(sim.remaining_tasks)
                            \/ s.current_time > sim.current_time
                            \/ ~LoopCondition(s)
                         /\ sim.current_time <= total_estimated_days(tasks) * Scale
                         /\ Len(s.remaining_tasks) + Len(s.active_tasks)
                                <= Len(tasks)
           /\ pc = "returned"
                  => /\ sim.remaining_tasks = <<>>
                     /\ \A i \in 1..Len(tasks) :
                            tasks[i].task_id \in DOMAIN sim.scheduled_start
                     /\ ret = MaxOf({sim.scheduled_start[tasks[i].task_id]
                                        + tasks[i].estimated_days * Scale :
                                      i \in 1..Len(tasks)})

(***************************************************************************)
(* C21: in the loop of the schedule simulation the clock is never advanced *)
(* by the fixed increment (with team_size >= 1 the "+ 0.1" branch is not   *)
(* taken), and every iteration that changes the clock sets it to the       *)
(* finish time of an active task or to the greatest finish time recorded   *)
(* for the dependencies of a task that is still waiting.  The code sets    *)
(* the clock to the default 0 when no dependency of the first waiting task *)
(* has a recorded finish time.                                             *)
(***************************************************************************)
FixedIncrementTaken(ts, s) ==
    /\ s.active_tasks = <<>>
    /\ s.remaining_tasks # <<>>
    /\ ts[s.remaining_tasks[1]].dependencies = <<>>

ActiveFinishTimes(ts, s) ==
    {s.scheduled_finish[ts[s.active_tasks[k]].task_id] : k \in 1..Len(s.active_tasks)}

RecordedDependencyFinishes(t, s) ==
    {s.scheduled_finish[t.dependencies[k]] :
       k \in {j \in 1..Len(t.dependencies) :
                t.dependencies[j] \in DOMAIN s.scheduled_finish}}

BlockedDependencyTimes(ts, s) ==
    {MaxOf(RecordedDependencyFinishes(ts[s.remaining_tasks[k]], s)) :
       k \in {j \in 1..Len(s.remaining_tasks) :
                RecordedDependencyFinishes(ts[s.remaining_tasks[j]], s) # {}}}

C21_ClockMovesToEvents ==
    (pc = "schedule" /\ team_size >= 1)
        => LET s == ScheduleAdmit(tasks, team_size, sim)
               after == AdvanceClock(tasks, s)
           IN  /\ ~FixedIncrementTaken(tasks, s)
               /\ after.current_time # sim.current_time
                      => after.current_time \in
                             ActiveFinishTimes(tasks, s) \cup BlockedDependencyTimes(tasks, s)

(***************************************************************************)
(* C22: for an acyclic, fully resolved Project with team_size >=           *)
(* task_count the schedule simulation returns the greatest earliest finish *)
(* of the forward propagation of get_critical_path, whatever the order in  *)
(* which the tasks are listed.  The code computes the finish times in one  *)
(* pass in insertion order, so a task listed before its dependency starts  *)
(* at 0.                                                                   *)
(***************************************************************************)
ForwardPropagationFinish(ts) ==
    MaxOf({EarliestFinish(ts, EarliestStart(ts), id) : id \in TaskIds(ts)})

C22_UnconstrainedIsForwardPropagation ==
    (/\ Returned("_simulate_resource_constrained_schedule")
     /\ Acyclic(tasks) /\ Resolved(tasks)
     /\ team_size >= Len(tasks))
        => ret = ForwardPropagationFinish(tasks) * Scale

(***************************************************************************)
(* C23: in every Monte Carlo trial of a Project with an acyclic graph, the *)
(* finish time computed for a task is at least the finish time computed    *)
(* for each of its dependencies that exists in the Project plus the task's *)
(* own perturbed duration, whatever the order in which the tasks are       *)
(* listed, and the greatest finish time is the longest dependency chain    *)
(* under the perturbed durations.  The code computes the finish times in   *)
(* one pass in insertion order, so a task listed before its dependency     *)
(* starts at 0.                                                            *)
(***************************************************************************)
RECURSIVE PerturbedChainStart(_, _, _)
PerturbedChainStart(ts, durations, i) ==
    LET preds == {j \in 1..Len(ts) : DependsOn(ts, i, j)}
    IN  IF preds = {} THEN 0
        ELSE MaxOf({PerturbedChainStart(ts, durations, j) + durations[ts[j].task_id] :
                      j \in preds})

PerturbedLongestChain(ts, durations) ==
    MaxOf({PerturbedChainStart(ts, durations, i) + durations[ts[i].task_id] :
             i \in 1..Len(ts)})

C23_TrialHonoursDependencies ==
    (pc = "trials" /\ Acyclic(tasks))
        => LET durations == PerturbTasks(tasks, risk_level, 1, 0, EmptyDict, rng).task_durations
               finish == ScenarioFinishTimes(tasks, 1, durations, EmptyDict)
           IN  /\ \A i, j \in 1..Len(tasks) :
                      DependsOn(tasks, i, j)
                          => finish[tasks[i].task_id]
                                 >= finish[tasks[j].task_id] + durations[tasks[i].task_id]
               /\ MaxOf(DictValues(finish)) = PerturbedLongestChain(tasks, durations)

(***************************************************************************)
(* C24: in every Monte Carlo trial the risk factor is the tier base plus   *)
(* the perturbation, floored at 1.0, so it is at least 1.0 whatever the    *)
(* perturbation, and the cost and the timeline recorded for the trial are  *)
(* not smaller than the trial's totals before the risk factor was applied. *)
(* The code records a smaller total when the total is negative, which a    *)
(* task of negative duration or negative daily cost produces.              *)
(***************************************************************************)
TierBase ==
    IF risk_level = <<"l", "o", "w">> THEN 105
    ELSE IF risk_level = <<"h", "i", "g", "h">> THEN 130
    ELSE 115

C24_RiskFactorNeverReduces ==
    pc = "trials"
        => LET p == PerturbTasks(tasks, risk_level, 1, 0, EmptyDict, rng)
               t == calculate_scenario_timeline(tasks, team_size, p.task_durations, p.rng)
               variation == gauss(t.rng)
               risk_factor == get_risk_factor(risk_level, variation)
               scenario == simulate_single_scenario(tasks, team_size, risk_level, rng)
           IN  /\ risk_factor >= RiskScale
               /\ risk_factor = (IF TierBase + variation >= RiskScale
                                 THEN TierBase + variation ELSE RiskScale)
               /\ scenario.total_cost >= p.total_cost * RiskScale
               /\ scenario.total_timeline >= t.timeline * RiskScale

(***************************************************************************)
(* C25: in every Monte Carlo trial with team_size < task_count the         *)
(* timeline of _calculate_scenario_timeline is at least the greatest       *)
(* dependency-based finish time of the trial.  The code multiplies that    *)
(* finish time by (1.0 + 0.1 * (task_count / team_size - 1)) and by a      *)
(* jitter drawn from [0.8, 1.2], and the product is below 1 for a jitter   *)
(* near 0.8.                                                               *)
(***************************************************************************)
C25_ContentionOnlyAddsDelay ==
    (pc = "trials" /\ team_size < Len(tasks))
        => LET p == PerturbTasks(tasks, risk_level, 1, 0, EmptyDict, rng)
               finish == ScenarioFinishTimes(tasks, 1, p.task_durations, EmptyDict)
               t == calculate_scenario_timeline(tasks, team_size, p.task_durations, p.rng)
           IN  t.timeline >= MaxOf(DictValues(finish)) * (10 * team_size) * JitterScale

(***************************************************************************)
(* C26: for a Project with positive durations and resolved dependency ids  *)
(* get_critical_path() terminates, also when the graph has a cycle: the    *)
(* Kahn loop pops at most one id per task, and an iteration of the         *)
(* backtracking loop either ends the loop or moves to a task whose         *)
(* earliest start is strictly smaller (and not negative), without raising; *)
(* the path never holds more tasks than the Project.                       *)
(***************************************************************************)
C26_CriticalPathTerminates ==
    (/\ pc \in {"backtrack", "returned"}
     /\ call \in {"get_critical_path", "calculate_parallel_timeline"}
     /\ cp # NoValue
     /\ PositiveNumbers(tasks) /\ Resolved(tasks))
        => /\ Len(KahnRetired(tasks, InitEarliestStart(tasks), InitInDegree(tasks),
                              InitQueue(tasks, 1))) <= Len(tasks)
           /\ Len(cp.critical_path) <= Len(tasks)
           /\ pc = "backtrack"
                  => LET b == BacktrackBody(tasks, cp)
                     IN  /\ b.status # "KeyError"
                         /\ Len(cp.critical_path) < Len(tasks)
                         /\ b.status = "loop"
                                => /\ cp.earliest_start[b.cp.current_id]
                                          < cp.earliest_start[cp.current_id]
                                   /\ cp.earliest_start[b.cp.current_id] >= 0

\* get_critical_path has returned a path of two tasks for a graph with a cycle
C26_Witness ==
    /\ Returned("get_critical_path")
    /\ PositiveNumbers(tasks) /\ Resolved(tasks) /\ Cyclic(tasks)
    /\ Len(ret) >= 2

(***************************************************************************)
(* C27: for a SimulationResult that is not empty, get_scenarios() gives    *)
(* best_case <= p50 <= p75 <= worst_case for the cost and for the          *)
(* timeline, and the percentile of each series does not decrease when the  *)
(* percentile argument grows within 0..100.                                *)
(***************************************************************************)
ScenarioOrder(sc, field) ==
    /\ sc.best_case[field] <= sc.p50[field]
    /\ sc.p50[field] <= sc.p75[field]
    /\ sc.p75[field] <= sc.worst_case[field]

PercentileMonotone(values) ==
    \A p, q \in {x \in PercentileInputs : 0 <= x /\ x <= 100} :
        p <= q => calculate_percentile(values, p).value
                     <= calculate_percentile(values, q).value

C27_ScenariosAreOrdered ==
    (Returned("get_scenarios") /\ (result.costs # <<>> \/ result.timelines # <<>>))
        => /\ ScenarioOrder(ret, "cost")
           /\ ScenarioOrder(ret, "timeline")
           /\ PercentileMonotone(result.costs)
           /\ PercentileMonotone(result.timelines)

\* scenarios of an unsorted series of three different costs
C27_Witness ==
    /\ Returned("get_scenarios")
    /\ Len(result.costs) = 3
    /\ result.costs[1] > result.costs[2]
    /\ ret.best_case.cost < ret.p50.cost
    /\ ret.p50.cost < ret.p75.cost
    /\ ret.best_case.timeline < ret.worst_case.timeline

(***************************************************************************)
(* C28: in the dashboard, after any sequence of Add Task and delete-task   *)
(* operations, every dependency id stored on a task of the session task    *)
(* list is the id of a task that is in the list.                           *)
(***************************************************************************)
SessionIds(ts) == {ts[k].id : k \in 1..Len(ts)}

SessionDependencyIds(ts) ==
    UNION {{ts[k].dependencies[i] : i \in 1..Len(ts[k].dependencies)} : k \in 1..Len(ts)}

C28_NoDanglingDependency ==
    SessionDependencyIds(session.tasks) \subseteq SessionIds(session.tasks)

(***************************************************************************)
(* C29: in the dashboard, after any sequence of Add Task and delete-task   *)
(* operations, the dependency graph of the Project built from the session  *)
(* task list is acyclic, also after a task is deleted and a task with the  *)
(* same derived id is added again.                                         *)
(***************************************************************************)
C29_DashboardGraphAcyclic ==
    Acyclic(TaskObjects(session.tasks))

(***************************************************************************)
(* C30: in the dashboard, whenever a stored simulation result is displayed *)
(* or passed to the chart or PDF generation, it was produced by a          *)
(* simulation run on the current task list and configuration: after an     *)
(* add-task, delete-task, team-size or risk-level change that follows a    *)
(* run, the stored result and simulator are discarded or replaced before   *)
(* they are used.                                                          *)
(***************************************************************************)
\* the stored simulator was built for project p and the stored result has
\* the simulator's number of iterations
ProducedOn(stored, p) ==
    /\ stored.simulator # NoValue
    /\ stored.simulator.project = p
    /\ stored.simulation_result.iterations = stored.simulator.iterations

\* the task list and the configuration the next run of main() works on
Configuration(s) == [tasks |-> s.tasks, team_size |-> s.team_size, risk_level |-> s.risk_level]

\* what a page shows or passes on belongs to the page's project, and a step
\* that changes the task list or the configuration leads to a page that
\* uses no stored result
C30_StoredResultIsCurrent ==
    [][/\ page'.displayed # NoValue => ProducedOn(page'.displayed, page'.project)
       /\ page'.generated # NoValue => ProducedOn(page'.displayed, page'.generated.project)
       /\ Configuration(session') # Configuration(session) => page'.displayed = NoValue]_vars

====
